---- MODULE Spec2Model ----
(***************************************************************************)
(* Interview orchestration core of IIS_prepair_project.                    *)
(*                                                                         *)
(* One interview session is modelled: the persisted InterviewSession row   *)
(* (plan, conversation_state_json, ended_at), the InterviewTurn rows, and  *)
(* the requests against it.  Scores are integers in hundredths (0.85 is    *)
(* 85).                                                                    *)
(*                                                                         *)
(*   Spec      the router's handlers, each one atomic step                 *)
(*   SpecLoop  AgentReasoningLoop.run, one step per backend query and per  *)
(*             tool call                                                   *)
(*   SpecActs  AgentReasoningLoop.run with the tool calls it executes     *)
(*             counted                                                     *)
(*   SpecLLM   call_llm and the retry decorators of the backend clients    *)
(*   SpecConc  two submitAnswer requests stepping through process_turn     *)
(*             between its database commits                                *)
(*   SpecCrash process_turn failing between its database commits          *)
(*   SpecLive  the session with a client that keeps on answering           *)
(*   SpecTest  the session in the deterministic decision mode              *)
(*   SpecFilter     filter_question of the guardrails on a question text   *)
(*   SpecSelection  build_interview_plan over a bank and a session history *)
(*   SpecEngine     get_next_question and process_answer of the engine     *)
(*   SpecStart      start_interview against the persisted rows             *)
(*   SpecStyle      the style weighting of build_interview_plan            *)
(***************************************************************************)
EXTENDS Integers, Sequences, FiniteSets, TLC

\* ------------------------------------------------------------------ bounds
MaxOpen == 1
MaxCode == 2
MaxTurns == 3
MaxCalls == 2

\* ------------------------------------------------------- program constants
MAX_ITERATIONS == 5
max_followups == 2
GeminiToolAttempts == 3
GeminiTextAttempts == 5

\* ----------------------------------------------------------------- values
Workers == {1, 2}

None == "None"
\* encodings of a tool's data where a score is expected
NoneVal == -2
NoScore == -1
BadData == -3
BackendScores == {40, 150}
ScoreData == BackendScores \cup {NoScore}

Min(a, b) == IF a < b THEN a ELSE b
Max(a, b) == IF a > b THEN a ELSE b
Clamp(s) == Max(0, Min(100, s))
\* d.get("score", default) on a dict that may lack the key
GetScore(d, default) == IF d = NoScore THEN default ELSE d

VARIABLES
    cfg,                 \* environment: API keys present, pytest mode
    useGroqPrimary,      \* USE_GROQ_PRIMARY
    created,             \* the InterviewSession row exists
    plan,                \* plan_json items
    conversation_state,  \* conversation_state_json (one JSON blob)
    ended_at,            \* InterviewSession.ended_at is set
    turns,               \* InterviewTurn rows in insertion order
    pc,                  \* per request: position inside the handler
    loc,                 \* per request: local variables of process_turn/run
    resp,                \* per request: last response returned
    run,                 \* AgentReasoningLoop.run taken on its own
    llm,                 \* the call_llm machine
    acts,                \* the tool calls run() has executed in this turn
    filter,              \* a call of the guardrail's filter_question
    selection,           \* a call of build_interview_plan / _select_questions
    engine,              \* a session of the interview engine (src/interview)
    store,               \* the rows startInterview calls have persisted
    style                \* a call of the style weighting of plan building

vars == <<cfg, useGroqPrimary, created, plan, conversation_state, ended_at,
          turns, pc, loc, resp, run, llm, acts, filter, selection, engine,
          store, style>>

\* the state of the calls that are taken on their own
callVars == <<filter, selection, engine, store, style>>

sessionVars == <<created, plan, conversation_state, ended_at, turns, pc, loc, resp>>

\* ----------------------------------------------- calls taken on their own
\* no call of filter_question is in progress
NoFilter == [pc |-> "idle", question |-> << >>, allowed |-> TRUE, returned |-> None]

\* no plan is being built
NoSelection == [pc |-> "idle"]

\* no engine session exists
NoEngine == [pc |-> "idle"]

\* nothing persisted by startInterview yet
NoStore == [sessions |-> << >>, history |-> {}, resp |-> [status |-> "none", first |-> 0]]

\* no style weighting is being computed
NoStyle == [pc |-> "idle"]

\* ------------------------------------------------------------- state shape
EmptyState ==
    [current_question_id |-> 0,
     followup_count |-> 0,
     question_index |-> 0,
     previous_followups |-> << >>,
     refined |-> {}]

NoDecision ==
    [action |-> "none", followup_question |-> None, satisfaction_score |-> 0,
     found_eval |-> FALSE, trace_score |-> NoScore]

NoTurn ==
    [id |-> 0, turn_index |-> 0, question_id |-> 0, question_number |-> 0,
     is_followup |-> FALSE, parent_turn_id |-> 0]

\* a submitted answer: whether code came with it, and the transcript
\* ("long" is more than 100 characters)
Answers ==
    {[code |-> FALSE, text |-> "none"],
     [code |-> FALSE, text |-> "short"],
     [code |-> FALSE, text |-> "long"],
     [code |-> TRUE, text |-> "short"]}

\* locals of one process_turn call in flight
IdleLoc ==
    [ans |-> [code |-> FALSE, text |-> "none"],
     state |-> EmptyState,
     question_id |-> 0,
     out |-> [dec |-> NoDecision, path |-> "none", raised |-> FALSE],
     turn |-> NoTurn]

\* the last response a caller got, with the request it answers: op and
\* status, the response fields, and what the handler saw and did (question
\* index and follow-up count on entry, answer, whether the backends were
\* down, run()'s decision, its follow-up question (question) and path, the
\* action applied, the score stored
\* with the turn, the number of turns and state updates it committed, the
\* refined_q_<slot> keys of the stored state on entry and the slots whose
\* text the handler generated with _refine_and_translate)
NoResp ==
    [op |-> "none", status |-> "none",
     agent_decision |-> None, is_done |-> FALSE, followup_question |-> None,
     qi0 |-> 0, fc0 |-> 0, ans |-> [code |-> FALSE, text |-> "none"],
     down |-> FALSE, decision |-> "none", path |-> "none", applied |-> None,
     overall |-> 0, recorded |-> 0, updated |-> FALSE,
     cached0 |-> {}, generated |-> {}, question |-> None]

\* locals of one AgentReasoningLoop.run call
IdleRun ==
    [pc |-> "idle",
     ans |-> [code |-> FALSE, text |-> "none"],
     followup_count |-> 0, question_index |-> 0, total_questions |-> 1,
     iteration |-> 0, pending |-> 0,
     latest_analysis |-> NoneVal, latest_code_analysis |-> NoneVal,
     found_eval |-> FALSE, trace_score |-> NoScore,
     decision |-> NoDecision, path |-> "none", raised |-> FALSE,
     queries |-> 0, groqCalls |-> 0, groqFallbacks |-> 0, heuristics |-> 0,
     primaryFailed |-> FALSE]

\* the tool calls executed by one run() call: the number executed (total),
\* the last one when it was a terminal tool ("info" otherwise) and whether
\* it succeeded, and for one tool picked when run() is entered (watched) the
\* number of times it was executed (count) and executed in a row (streak)
NoActs ==
    [total |-> 0, last |-> None, ok |-> FALSE,
     watched |-> None, count |-> 0, streak |-> 0]

\* one call into the LLM clients: the function entered (fn), the prefer
\* argument, the backend function running, its attempts so far, the
\* backend functions attempted in order (log), the last error and the result
IdleLlm ==
    [pc |-> "idle", fn |-> None, prefer |-> None, backend |-> None,
     attempts |-> 0, log |-> << >>, err |-> None, result |-> None]

\* plans as build_interview_plan lays them out: open slots, then code slots
PlanOf(nOpen, nCode) ==
    [i \in 1..(nOpen + nCode) |->
        [type |-> IF i <= nOpen THEN "open" ELSE "code",
         selected_question_id |-> i]]

Plans == {PlanOf(o, c) : o \in 0..MaxOpen, c \in 0..MaxCode} \ {<< >>}

Configs == [gemini : BOOLEAN, groq : BOOLEAN, testMode : BOOLEAN]

\* ------------------------------------------------------------ AgentContext
\* variant: the follow-up budget is never seen as spent
NeverForceAdvance(followup_count) == FALSE

ShouldForceAdvance(followup_count) == followup_count >= max_followups

\* variant: no slot is seen as the last one
NeverLastQuestion(question_index, total_questions) == FALSE

IsLastQuestion(question_index, total_questions) ==
    question_index >= total_questions - 1

\* outcomes of one call_llm call under configuration c: it raises when no
\* backend is configured, and always while the backends are down
LlmOutcomes(c, down) ==
    IF (c.gemini \/ c.groq) /\ ~down THEN {"ok", "raise"} ELSE {"raise"}


\* -------------------------------------------------------- reasoning trace
\* The part of run()'s local state that later code reads: latest_analysis,
\* latest_code_analysis, and what _create_turn will find in the trace.
TraceOf(l) ==
    [la |-> l.latest_analysis, lc |-> l.latest_code_analysis,
     tf |-> l.found_eval, ts |-> l.trace_score]

Dec(action, fq, score, s) ==
    [action |-> action, followup_question |-> fq, satisfaction_score |-> score,
     found_eval |-> s.tf, trace_score |-> s.ts]

\* decision built by process_turn when run() raises
ExceptionDecision ==
    [action |-> "advance", followup_question |-> None, satisfaction_score |-> 50,
     found_eval |-> FALSE, trace_score |-> NoScore]

\* ------------------------------------------------------------- tool calls
ToolNames ==
    {"respond_to_candidate", "analyze_answer", "evaluate_code", "ask_followup",
     "give_hint", "advance_to_next", "end_interview"}

\* One tool call of a backend response together with what executing it
\* yields: out = "ok" (ToolResult.success with a JSON object), "fail"
\* (success = False), "bad" (success with a JSON value that is not an object).
ToolCalls ==
    {[name |-> "respond_to_candidate", out |-> o, score |-> NoScore] : o \in {"ok", "bad"}}
    \cup {[name |-> n, out |-> "ok", score |-> b] :
            n \in {"analyze_answer", "evaluate_code"}, b \in ScoreData}
    \cup {[name |-> n, out |-> o, score |-> NoScore] :
            n \in {"analyze_answer", "evaluate_code"}, o \in {"fail", "bad"}}
    \cup {[name |-> "ask_followup", out |-> o, score |-> NoScore] : o \in {"ok", "fail"}}
    \cup {[name |-> "give_hint", out |-> o, score |-> NoScore] : o \in {"ok", "fail", "bad"}}
    \cup {[name |-> "advance_to_next", out |-> "ok", score |-> b] : b \in ScoreData}
    \cup {[name |-> "end_interview", out |-> "ok", score |-> NoScore]}
    \cup {[name |-> "unknown_tool", out |-> "fail", score |-> NoScore]}


\* execute_tool: ToolResult of the call (success, data)
execute_tool(call) ==
    IF call.name \notin ToolNames
    THEN [success |-> FALSE, data |-> NoScore]
    ELSE [success |-> call.out # "fail",
          data |-> IF call.out = "bad" THEN BadData ELSE call.score]

\* lines 316-324 of run(): bookkeeping after a tool result
Observe(call, r, s) ==
    IF call.name = "analyze_answer" /\ r.success
    THEN [s EXCEPT !.la = r.data, !.tf = TRUE,
                   !.ts = IF r.data \in BackendScores THEN r.data ELSE @]
    ELSE IF call.name = "evaluate_code" /\ r.success
    THEN [s EXCEPT !.lc = r.data, !.tf = TRUE,
                   !.ts = IF r.data \in BackendScores THEN r.data ELSE @]
    ELSE s

Raise(s) == [kind |-> "raise", dec |-> ExceptionDecision, s |-> s]
Decide(d, s) == [kind |-> "decision", dec |-> d, s |-> s]
Continue(s) == [kind |-> "continue", dec |-> NoDecision, s |-> s]

\* variant: no tool call ends the loop
TerminalCheckNever(call, r, s, question_index, total_questions) == Continue(s)

\* variant: an ask_followup call ends the loop whether or not it succeeded
TerminalCheckAnyFollowup(call, r, s, question_index, total_questions) ==
    IF call.name = "ask_followup"
    THEN Decide(Dec("followup", "filtered", 50, s), s)
    ELSE Continue(s)

\* lines 326-398 of run(): the terminal-action checks for one tool call
TerminalCheck(call, r, s, question_index, total_questions) ==
    IF call.name = "respond_to_candidate" /\ r.success /\ r.data = BadData
    THEN Raise(s)
    ELSE IF call.name = "ask_followup" /\ r.success
    THEN IF s.la = BadData THEN Raise(s)
         ELSE Decide(Dec("followup", "filtered",
                         IF s.la = NoneVal THEN 50 ELSE GetScore(s.la, 50), s), s)
    ELSE IF call.name = "give_hint" /\ r.success
    THEN IF r.data = BadData THEN Raise(s)
         ELSE Decide(Dec("hint", None, 30, s), s)
    ELSE IF call.name = "advance_to_next"
    THEN IF s.la # NoneVal
         THEN IF s.la = BadData THEN Raise(s)
              ELSE Decide(Dec("advance", None, GetScore(s.la, 50), s), s)
         ELSE IF s.lc # NoneVal
         THEN IF s.lc = BadData THEN Raise(s)
              ELSE Decide(Dec("advance", None, GetScore(s.lc, 50), s), s)
         ELSE Decide(Dec("advance", None, GetScore(r.data, 70), s), s)
    ELSE IF call.name = "end_interview"
    THEN IF s.la = BadData \/ (s.la = NoneVal /\ s.lc = BadData) THEN Raise(s)
         ELSE LET sc == IF s.la # NoneVal THEN GetScore(s.la, 70)
                        ELSE IF s.lc # NoneVal THEN GetScore(s.lc, 70) ELSE 70
              IN  IF ~IsLastQuestion(question_index, total_questions)
                  THEN Decide(Dec("advance", None, sc, s), s)
                  ELSE Decide(Dec("end", None, sc, s), s)
    ELSE Continue(s)

\* lines 296-409 of run(): one pass of the inner for-loop, for one tool call
ExecCall(call, s, question_index, total_questions) ==
    LET r == execute_tool(call)
    IN  TerminalCheck(call, r, Observe(call, r, s), question_index, total_questions)

\* ------------------------------------------------------ decisions of run()
\* Each operator below yields the set of results the function can return,
\* one per behaviour of the backend calls it makes.  A result carries the
\* decision and the number of Groq calls made (calls).
Res(d, calls) == [dec |-> d, calls |-> calls]

\* variant: the deterministic mode always moves on
TestModeAlwaysAdvance(question_index, followup_count, s) ==
    Dec("advance", None, 70, s)

\* _test_mode_decision; its two follow-up texts are "canned_example" ("Can
\* you walk me through a specific example?") and "canned_tradeoffs" ("What
\* trade-offs did you consider?")
TestModeDecision(question_index, followup_count, s) ==
    IF question_index = 0 /\ followup_count = 0
    THEN Dec("followup", "canned_example", 60, s)
    ELSE IF question_index = 0 /\ followup_count > 0
    THEN Dec("advance", None, 70, s)
    ELSE IF question_index >= 1 /\ followup_count = 0
    THEN Dec("followup", "canned_tradeoffs", 60, s)
    ELSE Dec("end", None, 80, s)

\* free text of a response without tool calls: which keywords it contains
\* ("next question"/"move on", "follow"/"clarify", a question mark)
TextKinds ==
    {[next |-> TRUE, follow |-> FALSE, qmark |-> FALSE],
     [next |-> TRUE, follow |-> TRUE, qmark |-> TRUE],
     [next |-> FALSE, follow |-> TRUE, qmark |-> TRUE],
     [next |-> FALSE, follow |-> TRUE, qmark |-> FALSE],
     [next |-> FALSE, follow |-> FALSE, qmark |-> TRUE]}

\* _interpret_final_response
InterpretFinalResponse(text, s) ==
    IF text.next
    THEN IF s.la = BadData THEN Raise(s)
         ELSE Decide(Dec("advance", None,
                         IF s.la = NoneVal THEN 70 ELSE GetScore(s.la, 70), s), s)
    ELSE IF text.follow
    THEN IF s.la = BadData THEN Raise(s)
         ELSE Decide(Dec("followup", IF text.qmark THEN "unfiltered" ELSE None,
                         IF s.la = NoneVal THEN 50 ELSE GetScore(s.la, 50), s), s)
    ELSE Decide(Dec("advance", None, 60, s), s)

\* variant: the Groq fallback always gives up
GroqFallbackGivesUp(c, down, ans, followup_count, s) == {}

\* _groq_followup_fallback; the empty set stands for the None it returns
\* when GROQ_API_KEY is not set.  Every call_llm(prefer="groq") it makes
\* is one call of call_groq.
GroqFollowupFallback(c, down, ans, followup_count, s) ==
    LET ok == "ok" \in LlmOutcomes(c, down)
        scores == IF ok THEN ScoreData ELSE {}
        followups == {Res(Dec("followup", "unfiltered", 50, s), 0) : x \in scores}
                     \cup {Res(Dec("followup", "canned", 50, s), 0)}
    IN  IF ~c.groq THEN {}
        ELSE IF ans.code
        THEN {Res(Dec("advance", None, Clamp(GetScore(b, 70)), s), 2) : b \in scores}
             \cup {Res(Dec("advance", None, 85, s), 2)}
        ELSE IF ShouldForceAdvance(followup_count)
        THEN {Res(Dec("advance", None, 60, s), 1)}
        ELSE IF ans.text = "long"
        THEN {Res(Dec("advance", None, GetScore(b, 60), s), 2) : b \in scores}
             \cup {Res(Dec("advance", None, 60, s), 2)}
             \cup {Res(r.dec, 3) : r \in IF ok THEN followups ELSE {}}
        ELSE {Res(r.dec, 2) : r \in followups}

\* _fallback_decision
FallbackDecision(c, down, ans, followup_count, question_index, total_questions, s) ==
    LET action == IF ShouldForceAdvance(followup_count) THEN "advance"
                  ELSE IF IsLastQuestion(question_index, total_questions) THEN "end"
                  ELSE "advance"
        n == IF c.groq THEN 1 ELSE 0
    IN  IF ans.code
        THEN {Res(Dec(action, None, Clamp(GetScore(b, 70)), s), 2 * n) :
                 b \in IF "ok" \in LlmOutcomes(c, down) THEN ScoreData ELSE {}}
             \cup {Res(Dec(action, None, 85, s), 2 * n)}
        ELSE {Res(Dec(action, None, 60, s), n)}

\* ---------------------------------------------- run() taken as one function
\* The trace summaries run() can hold at the start of its k-th backend
\* query are computed by following its loop: every response carries 1 to
\* MaxCalls tool calls, and the next query is made only when none of them
\* was terminal.
StartTrace == [la |-> NoneVal, lc |-> NoneVal, tf |-> FALSE, ts |-> NoScore]

ContinueStep(S) ==
    {r.s : r \in {x \in {ExecCall(call, s, 0, 2) : call \in ToolCalls, s \in S} :
                     x.kind = "continue"}}

RECURSIVE CallsUpTo(_, _)
CallsUpTo(S, n) == IF n = 0 THEN S ELSE S \cup CallsUpTo(ContinueStep(S), n - 1)

AfterResponse(S) == CallsUpTo(ContinueStep(S), MaxCalls - 1)

RECURSIVE Frontier(_)
Frontier(k) == IF k = 0 THEN {StartTrace} ELSE AfterResponse(Frontier(k - 1))

\* summaries at the start of a query (iterations 0 .. MAX_ITERATIONS-1), and
\* after the last iteration
QueryTraces == UNION {Frontier(k) : k \in 0..(MAX_ITERATIONS - 1)}
FinalTraces == Frontier(MAX_ITERATIONS)

\* results of a response with tool calls that ends the loop
ToolResults(question_index, total_questions) ==
    {x \in {ExecCall(call, t, question_index, total_questions) :
               call \in ToolCalls, t \in CallsUpTo(QueryTraces, MaxCalls - 1)} :
        x.kind # "continue"}

ToolResultsLast == ToolResults(0, 1)
ToolResultsNotLast == ToolResults(0, 2)

TextResults == {InterpretFinalResponse(text, s) : text \in TextKinds, s \in QueryTraces}

Out(dec, path, raised) == [dec |-> dec, path |-> path, raised |-> raised]

OutOf(x, path) ==
    IF x.kind = "raise" THEN Out(ExceptionDecision, "exception", TRUE)
    ELSE Out(x.dec, path, FALSE)

\* the except branch of run(): Groq fallback, then _fallback_decision
PrimaryFailure(c, down, ans, followup_count, question_index, total_questions, s) ==
    LET g == GroqFollowupFallback(c, down, ans, followup_count, s)
    IN  IF g # {} THEN {Out(r.dec, "groq", FALSE) : r \in g}
        ELSE {Out(r.dec, "heuristic", FALSE) :
                 r \in FallbackDecision(c, down, ans, followup_count,
                                        question_index, total_questions, s)}

\* every decision run() can reach outside test mode, or the exception it
\* raises; the context enters through should_force_advance (force) and
\* is_last_question (last) only
LoopOutcomes(c, down, ans, force, last) ==
    LET fc == IF force THEN max_followups ELSE 0
        total == IF last THEN 1 ELSE 2
    IN  IF ~c.gemini \/ down
        THEN PrimaryFailure(c, down, ans, fc, 0, total, StartTrace)
        ELSE UNION {PrimaryFailure(c, down, ans, fc, 0, total, s) : s \in QueryTraces}
             \cup {OutOf(x, "tool") :
                     x \in IF last THEN ToolResultsLast ELSE ToolResultsNotLast}
             \cup {OutOf(x, "text") : x \in TextResults}
             \cup UNION {{Out(r.dec, "maxiter", FALSE) :
                            r \in FallbackDecision(c, down, ans, fc, 0, total, s)} :
                         s \in FinalTraces}

\* LoopOutcomes tabulated once
LoopTable ==
    [x \in {<<c, down, ans, force, last>> :
               c \in {k \in Configs : ~k.testMode}, down \in BOOLEAN,
               ans \in Answers, force \in BOOLEAN, last \in BOOLEAN} |->
        LoopOutcomes(x[1], x[2], x[3], x[4], x[5])] @@ << >>

\* every decision run() can hand to process_turn, or the exception it raises
RunOutcomes(c, down, ans, followup_count, question_index, total_questions) ==
    IF c.testMode
    THEN {Out(TestModeDecision(question_index, followup_count, StartTrace), "test", FALSE)}
    ELSE LoopTable[<<c, down, ans, ShouldForceAdvance(followup_count),
                     IsLastQuestion(question_index, total_questions)>>]

\* ---------------------------------------------------------- agent_guardrails
\* validate_agent_decision: the action it leaves, corrected_decision when it
\* finds the decision invalid and the decision itself otherwise
validate_agent_decision(decision, followup_count, max, is_last_question) ==
    IF decision \notin {"followup", "advance", "hint", "end"} THEN "advance"
    ELSE IF decision = "followup" /\ followup_count >= max THEN "advance"
    ELSE IF decision = "advance" /\ is_last_question THEN "end"
    ELSE decision

\* ------------------------------------------------------------ process_turn
\* _load_state keeps five keys of the stored blob and drops the rest
load_state(stored) == [stored EXCEPT !.refined = {}]

\* the refinement block of process_turn: refined_q_<index> is added to the
\* local state when it is not there
Refine(state, question_index) ==
    [state EXCEPT !.refined = @ \cup {question_index}]

\* slots for which the refinement block of process_turn calls
\* _refine_and_translate: the current one unless its key is in the state
refine_calls_turn(state, question_index) ==
    IF question_index \in state.refined THEN {} ELSE {question_index}

\* slots for which _get_next_question_data calls _refine_and_translate
refine_calls_next(next_index, state, p) ==
    IF next_index < Len(p) /\ next_index \notin state.refined THEN {next_index} ELSE {}

\* question looked up by process_turn; 0 stands for None
QuestionId(state, p) ==
    IF state.followup_count > 0 THEN state.current_question_id
    ELSE IF state.question_index < Len(p)
    THEN p[state.question_index + 1].selected_question_id
    ELSE 0

\* Variant of _get_last_main_turn that orders by turn_index ascending: the id
\* of the earliest non-follow-up turn.
get_first_main_turn(ts) ==
    LET mains == {i \in 1..Len(ts) : ~ts[i].is_followup}
    IN  IF mains = {} THEN 0
        ELSE ts[CHOOSE i \in mains : \A j \in mains : ts[j].turn_index >= ts[i].turn_index].id

\* _get_last_main_turn: id of the latest turn that is no follow-up, 0 if none
get_last_main_turn(ts) ==
    LET mains == {i \in 1..Len(ts) : ~ts[i].is_followup}
    IN  IF mains = {} THEN 0
        ELSE ts[CHOOSE i \in mains : \A j \in mains : ts[j].turn_index <= ts[i].turn_index].id

\* _fallback_evaluate: the "overall" values it can return; NoneVal for None
fallback_evaluate(c, down, ans) ==
    IF ~ans.code /\ ans.text = "none" THEN {NoneVal}
    ELSE {Clamp(GetScore(b, IF ans.code THEN 85 ELSE 60)) :
             b \in IF "ok" \in LlmOutcomes(c, down) THEN ScoreData ELSE {}}
         \cup {IF ans.code THEN 85 ELSE NoneVal}

\* score_json["overall"] values _create_turn can store
create_turn_overall(c, down, ans, d) ==
    LET base == IF d.trace_score # NoScore THEN d.trace_score
                ELSE d.satisfaction_score
    IN  IF ~d.found_eval /\ (ans.text # "none" \/ ans.code)
        THEN {IF f = NoneVal THEN base ELSE f : f \in fallback_evaluate(c, down, ans)}
        ELSE {base}

\* what process_turn takes from run()'s outcome and _create_turn's score:
\* the action, the follow-up question and the path of the outcome, and the
\* overall score stored with the turn
TurnOf(out, overall) ==
    [out |-> [out EXCEPT !.dec.satisfaction_score = 0, !.dec.found_eval = FALSE,
                         !.dec.trace_score = NoScore],
     overall |-> overall]

TurnsOf(c, down, ans, outs) ==
    UNION {{TurnOf(out, overall) : overall \in create_turn_overall(c, down, ans, out.dec)} :
              out \in outs}

\* TurnsOf over LoopTable, tabulated once
TurnTable ==
    [x \in DOMAIN LoopTable |-> TurnsOf(x[1], x[2], x[3], LoopTable[x])] @@ << >>

\* the outcomes of run() and _create_turn for one process_turn call
TurnOutcomes(c, down, ans, followup_count, question_index, total_questions) ==
    IF c.testMode
    THEN TurnsOf(c, down, ans,
                 RunOutcomes(c, down, ans, followup_count, question_index, total_questions))
    ELSE TurnTable[<<c, down, ans, ShouldForceAdvance(followup_count),
                     IsLastQuestion(question_index, total_questions)>>]

\* Variant of _create_turn that numbers a turn by the plan slot it answers
\* instead of by the count of the session's rows.
create_turn_by_slot(w, state, question_id, ts) ==
    [id |-> 2 * Len(ts) + w,
     turn_index |-> state.question_index,
     question_id |-> question_id,
     question_number |-> state.question_index,
     is_followup |-> state.followup_count > 0,
     parent_turn_id |-> IF state.followup_count > 0 THEN get_last_main_turn(ts) ELSE 0]

\* _create_turn: the row built for a request of worker w
create_turn(w, state, question_id, ts) ==
    [id |-> 2 * Len(ts) + w,
     turn_index |-> Len(ts),
     question_id |-> question_id,
     question_number |-> state.question_index,
     is_followup |-> state.followup_count > 0,
     parent_turn_id |-> IF state.followup_count > 0 THEN get_last_main_turn(ts) ELSE 0]

\* _get_next_question_data: refines the next question into the state
get_next_question_data(next_index, state, p) ==
    IF next_index >= Len(p) THEN state
    ELSE [state EXCEPT !.refined = @ \cup {next_index}]

\* variant: a followup decision is applied without looking at its question
apply_followup_unchecked(d, state, question_id, p) ==
    IF d.action = "followup"
    THEN [state |-> [state EXCEPT !.current_question_id = question_id,
                                  !.followup_count = @ + 1,
                                  !.previous_followups = Append(@, d.followup_question)],
          updated |-> TRUE, ended |-> FALSE, applied |-> "followup",
          is_done |-> FALSE, followup_question |-> d.followup_question]
    ELSE IF d.action = "hint"
    THEN [state |-> state, updated |-> FALSE, ended |-> FALSE, applied |-> "hint",
          is_done |-> FALSE, followup_question |-> None]
    ELSE IF d.action = "end"
    THEN [state |-> state, updated |-> FALSE, ended |-> TRUE, applied |-> "end",
          is_done |-> TRUE, followup_question |-> None]
    ELSE [state |-> [state EXCEPT !.question_index = @ + 1,
                                  !.followup_count = 0,
                                  !.previous_followups = << >>,
                                  !.refined = IF state.question_index + 1 < Len(p)
                                              THEN @ \cup {state.question_index + 1}
                                              ELSE @],
          updated |-> TRUE, ended |-> FALSE, applied |-> "advance",
          is_done |-> state.question_index + 1 >= Len(p),
          followup_question |-> None]
\* Variant of apply_decision whose followup branch counts the follow-up but
\* does not add its question to previous_followups.
apply_followup_unlisted(d, state, question_id, p) ==
    IF d.action = "followup" /\ d.followup_question # None
    THEN [state |-> [state EXCEPT !.current_question_id = question_id,
                                  !.followup_count = @ + 1],
          updated |-> TRUE, ended |-> FALSE, applied |-> "followup",
          is_done |-> FALSE, followup_question |-> d.followup_question]
    ELSE IF d.action = "hint"
    THEN [state |-> state, updated |-> FALSE, ended |-> FALSE, applied |-> "hint",
          is_done |-> FALSE, followup_question |-> None]
    ELSE IF d.action = "end"
    THEN [state |-> state, updated |-> FALSE, ended |-> TRUE, applied |-> "end",
          is_done |-> TRUE, followup_question |-> None]
    ELSE [state |-> get_next_question_data(state.question_index + 1,
                       [state EXCEPT !.question_index = @ + 1,
                                     !.followup_count = 0,
                                     !.previous_followups = << >>], p),
          updated |-> TRUE, ended |-> FALSE, applied |-> "advance",
          is_done |-> state.question_index + 1 >= Len(p),
          followup_question |-> None]

\* Variant of apply_decision whose advance branch moves question_index only
\* and leaves followup_count and previous_followups as they are.
apply_advance_keeps_followups(d, state, question_id, p) ==
    IF d.action = "followup" /\ d.followup_question # None
    THEN [state |-> [state EXCEPT !.current_question_id = question_id,
                                  !.followup_count = @ + 1,
                                  !.previous_followups = Append(@, d.followup_question)],
          updated |-> TRUE, ended |-> FALSE, applied |-> "followup",
          is_done |-> FALSE, followup_question |-> d.followup_question]
    ELSE IF d.action = "hint"
    THEN [state |-> state, updated |-> FALSE, ended |-> FALSE, applied |-> "hint",
          is_done |-> FALSE, followup_question |-> None]
    ELSE IF d.action = "end"
    THEN [state |-> state, updated |-> FALSE, ended |-> TRUE, applied |-> "end",
          is_done |-> TRUE, followup_question |-> None]
    ELSE [state |-> get_next_question_data(state.question_index + 1,
                       [state EXCEPT !.question_index = @ + 1], p),
          updated |-> TRUE, ended |-> FALSE, applied |-> "advance",
          is_done |-> state.question_index + 1 >= Len(p),
          followup_question |-> None]

\* the branches of _process_decision for a decision whose action is settled
apply_decision(d, state, question_id, p) ==
    IF d.action = "followup" /\ d.followup_question # None
    THEN [state |-> [state EXCEPT !.current_question_id = question_id,
                                  !.followup_count = @ + 1,
                                  !.previous_followups = Append(@, d.followup_question)],
          updated |-> TRUE, ended |-> FALSE, applied |-> "followup",
          is_done |-> FALSE, followup_question |-> d.followup_question]
    ELSE IF d.action = "hint"
    THEN [state |-> state, updated |-> FALSE, ended |-> FALSE, applied |-> "hint",
          is_done |-> FALSE, followup_question |-> None]
    ELSE IF d.action = "end"
    THEN [state |-> state, updated |-> FALSE, ended |-> TRUE, applied |-> "end",
          is_done |-> TRUE, followup_question |-> None]
    ELSE [state |-> get_next_question_data(state.question_index + 1,
                       [state EXCEPT !.question_index = @ + 1,
                                     !.followup_count = 0,
                                     !.previous_followups = << >>], p),
          updated |-> TRUE, ended |-> FALSE, applied |-> "advance",
          is_done |-> state.question_index + 1 >= Len(p),
          followup_question |-> None]

\* variant of the safeguard that trusts the decision
end_safeguard_off(d, state, p) == d

\* the safeguard of _process_decision: an end before the last plan item is
\* rewritten to an advance
end_safeguard(d, state, p) ==
    IF d.action = "end" /\ state.question_index < Len(p) - 1
    THEN [d EXCEPT !.action = "advance"]
    ELSE d

\* _process_decision: the state it saves, whether it sets ended_at, and the
\* response fields
process_decision(d, state, question_id, p) ==
    apply_decision(end_safeguard(d, state, p), state, question_id, p)

\* ------------------------------------------------------------------- Init
Init ==
    /\ cfg \in Configs
    /\ useGroqPrimary = FALSE
    /\ created = FALSE
    /\ plan = << >>
    /\ conversation_state = EmptyState
    /\ ended_at = FALSE
    /\ turns = << >>
    /\ pc = [w \in Workers |-> "idle"]
    /\ loc = [w \in Workers |-> IdleLoc]
    /\ resp = [w \in Workers |-> NoResp]
    /\ run = IdleRun
    /\ llm = IdleLlm
    /\ acts = NoActs
    /\ filter = NoFilter
    /\ selection = NoSelection
    /\ engine = NoEngine
    /\ store = NoStore
    /\ style = NoStyle

\* index of the first code item of the plan, -1 when there is none
FirstCode(p) ==
    LET codes == {i \in 1..Len(p) : p[i].type = "code"}
    IN  IF codes = {} THEN -1
        ELSE (CHOOSE i \in codes : \A j \in codes : i <= j) - 1

\* ------------------------------------------------------- request handlers
\* POST /interview/start
StartInterview ==
    /\ ~created
    /\ \E p \in Plans :
        /\ plan' = p
        /\ conversation_state' =
              [EmptyState EXCEPT !.refined = {0}]
    /\ created' = TRUE
    /\ resp' = [resp EXCEPT ![1] = [NoResp EXCEPT !.op = "start", !.status = "ok",
                                                  !.generated = {0}]]
    /\ UNCHANGED <<callVars, acts, cfg, useGroqPrimary, ended_at, turns, pc, loc, run, llm>>

\* the response of process_turn for a recorded turn
Response(state, ans, down, out, overall, pd) ==
    [op |-> "submit", status |-> "ok",
     agent_decision |-> IF pd.applied = "advance" /\ out.dec.action = "end"
                        THEN "advance" ELSE out.dec.action,
     is_done |-> pd.is_done, followup_question |-> pd.followup_question,
     qi0 |-> state.question_index, fc0 |-> state.followup_count,
     ans |-> ans, down |-> down, decision |-> out.dec.action, path |-> out.path,
     applied |-> pd.applied, overall |-> overall, recorded |-> 1,
     updated |-> pd.updated, cached0 |-> {}, generated |-> {},
     question |-> out.dec.followup_question]

\* the turn table seen through its latest MaxWindow rows
MaxWindow == 1
Window(ts) == IF Len(ts) > MaxWindow THEN Tail(ts) ELSE ts

\* the number of answers followed in the deterministic decision mode
MaxTestTurns == 5

\* POST /interview/next handled from start to end by worker w.  The table of
\* turns and the follow-up count grow without limit in the program: with
\* rows > 0 the handler is taken while the table has fewer than rows rows;
\* with rows = 0 it is always taken, the table is seen through Window and a
\* follow-up is applied while followup_count < MaxTurns.  The answers the
\* client can send are those of the set answers.
NextInterviewStep(w, answers, rows) ==
    /\ created
    /\ \E ans \in answers, down \in BOOLEAN :
        LET state0 == load_state(conversation_state)
            qi == state0.question_index
            fc == state0.followup_count
            question_id == QuestionId(state0, plan)
            state == Refine(state0, qi)
        IN  IF ended_at
            THEN /\ resp' = [resp EXCEPT ![w] =
                        [NoResp EXCEPT !.op = "submit", !.status = "rejected",
                                       !.qi0 = qi, !.fc0 = fc]]
                 /\ UNCHANGED <<conversation_state, ended_at, turns>>
            ELSE IF fc = 0 /\ qi >= Len(plan)
            THEN /\ ended_at' = TRUE
                 /\ resp' = [resp EXCEPT ![w] =
                        [NoResp EXCEPT !.op = "submit", !.status = "complete",
                                       !.is_done = TRUE, !.qi0 = qi, !.fc0 = fc]]
                 /\ UNCHANGED <<conversation_state, turns>>
            ELSE IF question_id = 0
            THEN /\ resp' = [resp EXCEPT ![w] =
                        [NoResp EXCEPT !.op = "submit", !.status = "error",
                                       !.is_done = TRUE, !.qi0 = qi, !.fc0 = fc]]
                 /\ UNCHANGED <<conversation_state, ended_at, turns>>
            ELSE /\ rows = 0 \/ Len(turns) < rows
                 /\ \E t \in TurnOutcomes(cfg, down, ans, fc, qi, Len(plan)) :
                       LET out == t.out
                           overall == t.overall
                           pd == process_decision(out.dec, state, question_id, plan)
                       IN  /\ (rows = 0 /\ pd.applied = "followup") => fc < MaxTurns
                           /\ turns' = LET ts == Append(turns, create_turn(w, state, question_id, turns))
                                       IN  IF rows = 0 THEN Window(ts) ELSE ts
                           /\ conversation_state' = pd.state
                           /\ ended_at' = pd.ended
                           /\ resp' = [resp EXCEPT ![w] =
                                  [Response(state, ans, down, out, overall, pd) EXCEPT
                                     !.cached0 = conversation_state.refined,
                                     !.generated =
                                        refine_calls_turn(state0, qi) \cup
                                        IF pd.applied = "advance"
                                        THEN refine_calls_next(qi + 1, state, plan)
                                        ELSE {}]]
    /\ UNCHANGED <<callVars, acts, cfg, useGroqPrimary, created, plan, pc, loc, run, llm>>

SubmitAnswer(w) == NextInterviewStep(w, Answers, MaxTurns)

\* POST /interview/skip-to-code
SkipToCode ==
    /\ created
    /\ FirstCode(plan) # -1
    /\ LET code_index == FirstCode(plan)
       IN  conversation_state' =
              get_next_question_data(code_index,
                  [conversation_state EXCEPT
                      !.question_index = code_index,
                      !.followup_count = 0,
                      !.current_question_id = plan[code_index + 1].selected_question_id,
                      !.previous_followups = << >>], plan)
    /\ resp' = [resp EXCEPT ![1] =
           [NoResp EXCEPT !.op = "skip", !.status = "ok", !.agent_decision = "skip",
                          !.cached0 = conversation_state.refined,
                          !.generated = refine_calls_next(FirstCode(plan),
                                                          conversation_state, plan)]]
    /\ UNCHANGED <<callVars, acts, cfg, useGroqPrimary, created, plan, ended_at, turns, pc, loc, run, llm>>

\* POST /interview/end
EndInterview ==
    /\ created
    /\ ended_at' = TRUE
    /\ resp' = [resp EXCEPT ![1] = [NoResp EXCEPT !.op = "end", !.status = "ok"]]
    /\ UNCHANGED <<callVars, acts, cfg, useGroqPrimary, created, plan, conversation_state, turns,
                   pc, loc, run, llm>>

Next ==
    \/ StartInterview
    \/ SubmitAnswer(1)
    \/ SkipToCode
    \/ EndInterview

Spec == Init /\ [][Next]_vars

\* ------------------------------------- a candidate who keeps on answering
\* The session of Spec with a client that submits a short spoken answer
\* whenever the handler can be called: a request that is sent is handled
\* (weak fairness on the handler).
SubmitAnswerLive == NextInterviewStep(1, {[code |-> FALSE, text |-> "short"]}, 0)

NextLive ==
    \/ StartInterview
    \/ SubmitAnswerLive

InitLive ==
    /\ Init
    /\ cfg = [gemini |-> TRUE, groq |-> FALSE, testMode |-> FALSE]

SpecLive ==
    /\ InitLive
    /\ [][NextLive]_vars
    /\ WF_vars(SubmitAnswerLive)

\* ------------------------------------------- the deterministic decision mode
\* The session under PYTEST_CURRENT_TEST, followed for MaxTestTurns answers.
InitTest ==
    /\ Init
    /\ cfg.testMode

SubmitAnswerTest == NextInterviewStep(1, Answers, MaxTestTurns)

NextTest ==
    \/ StartInterview
    \/ SubmitAnswerTest

SpecTest == InitTest /\ [][NextTest]_vars

\* ------------------------------------- AgentReasoningLoop.run step by step
\* One call of run() on a context drawn from the contexts process_turn can
\* build.  run.pc is the position inside run(): "think" before a backend
\* query, "act" inside the for-loop over the tool calls of a response,
\* "groq_fallback" and "heuristic" inside the except branch, "done" when a
\* decision was returned or an exception left run().
WithTrace(l, s) ==
    [l EXCEPT !.latest_analysis = s.la, !.latest_code_analysis = s.lc,
              !.found_eval = s.tf, !.trace_score = s.ts]

Return(l, dec, path) ==
    [l EXCEPT !.pc = "done", !.decision = dec, !.path = path]

ReturnOf(l, x, path) ==
    IF x.kind = "raise"
    THEN [WithTrace(l, x.s) EXCEPT !.pc = "done", !.raised = TRUE, !.path = "exception"]
    ELSE Return(WithTrace(l, x.s), x.dec, path)

InitLoop ==
    /\ cfg \in Configs
    /\ useGroqPrimary = FALSE
    /\ created = FALSE
    /\ plan = << >>
    /\ conversation_state = EmptyState
    /\ ended_at = FALSE
    /\ turns = << >>
    /\ pc = [w \in Workers |-> "idle"]
    /\ loc = [w \in Workers |-> IdleLoc]
    /\ resp = [w \in Workers |-> NoResp]
    /\ run = IdleRun
    /\ llm = IdleLlm
    /\ acts = NoActs
    /\ filter = NoFilter
    /\ selection = NoSelection
    /\ engine = NoEngine
    /\ store = NoStore
    /\ style = NoStyle

\* run() is entered; in test mode it returns at once
RunEnter ==
    /\ run.pc = "idle"
    /\ \E ans \in Answers, fc \in 0..MaxTurns, total \in 1..(MaxOpen + MaxCode) :
       \E qi \in 0..(total - 1) :
          LET l == [IdleRun EXCEPT !.ans = ans, !.followup_count = fc,
                                   !.question_index = qi, !.total_questions = total]
          IN  run' = IF cfg.testMode
                     THEN Return(l, TestModeDecision(qi, fc, StartTrace), "test")
                     ELSE [l EXCEPT !.pc = "think"]
    /\ UNCHANGED <<callVars, acts, cfg, useGroqPrimary, sessionVars, llm>>

\* 1. THINK: generate_with_tools raises
ThinkRaises ==
    /\ run.pc = "think"
    /\ run.iteration < MAX_ITERATIONS
    /\ run' = [run EXCEPT !.pc = "groq_fallback", !.queries = @ + 1,
                          !.primaryFailed = TRUE]
    /\ UNCHANGED <<callVars, acts, cfg, useGroqPrimary, sessionVars, llm>>

\* 1. THINK: the response carries no tool call
ThinkText ==
    /\ run.pc = "think"
    /\ run.iteration < MAX_ITERATIONS
    /\ cfg.gemini
    /\ \E text \in TextKinds :
          run' = ReturnOf([run EXCEPT !.queries = @ + 1],
                          InterpretFinalResponse(text, TraceOf(run)), "text")
    /\ UNCHANGED <<callVars, acts, cfg, useGroqPrimary, sessionVars, llm>>

\* 1. THINK: the response carries 1 to MaxCalls tool calls
ThinkTools ==
    /\ run.pc = "think"
    /\ run.iteration < MAX_ITERATIONS
    /\ cfg.gemini
    /\ \E n \in 1..MaxCalls :
          run' = [run EXCEPT !.pc = "act", !.queries = @ + 1, !.pending = n]
    /\ UNCHANGED <<callVars, acts, cfg, useGroqPrimary, sessionVars, llm>>

\* 3. ACT: the next tool call of the response is executed
ActCall(call) ==
    /\ run.pc = "act"
    /\ LET x == ExecCall(call, TraceOf(run), run.question_index, run.total_questions)
       IN  run' = IF x.kind # "continue" THEN ReturnOf(run, x, "tool")
                  ELSE IF run.pending > 1
                  THEN [WithTrace(run, x.s) EXCEPT !.pending = @ - 1]
                  ELSE [WithTrace(run, x.s) EXCEPT !.pending = 0, !.pc = "think",
                                                   !.iteration = @ + 1]

Act ==
    /\ \E call \in ToolCalls : ActCall(call)
    /\ UNCHANGED <<callVars, acts, cfg, useGroqPrimary, sessionVars, llm>>

\* the for-loop ran out: _fallback_decision is next
MaxIterationsReached ==
    /\ run.pc = "think"
    /\ run.iteration = MAX_ITERATIONS
    /\ run' = [run EXCEPT !.pc = "heuristic"]
    /\ UNCHANGED <<callVars, acts, cfg, useGroqPrimary, sessionVars, llm>>

\* except branch: _groq_followup_fallback
GroqFallback ==
    /\ run.pc = "groq_fallback"
    /\ \E down \in BOOLEAN :
         LET g == GroqFollowupFallback(cfg, down, run.ans, run.followup_count, TraceOf(run))
             l == [run EXCEPT !.groqFallbacks = @ + 1]
         IN  IF g = {} THEN run' = [l EXCEPT !.pc = "heuristic"]
             ELSE \E r \in g :
                     run' = Return([l EXCEPT !.groqCalls = @ + r.calls], r.dec, "groq")
    /\ UNCHANGED <<callVars, acts, cfg, useGroqPrimary, sessionVars, llm>>

\* _fallback_decision
Heuristic ==
    /\ run.pc = "heuristic"
    /\ \E down \in BOOLEAN :
       \E r \in FallbackDecision(cfg, down, run.ans, run.followup_count,
                                 run.question_index, run.total_questions, TraceOf(run)) :
          run' = Return([run EXCEPT !.heuristics = @ + 1, !.groqCalls = @ + r.calls],
                        r.dec, IF run.primaryFailed THEN "heuristic" ELSE "maxiter")
    /\ UNCHANGED <<callVars, acts, cfg, useGroqPrimary, sessionVars, llm>>

\* the caller has the decision; the next call starts afresh
RunReturn ==
    /\ run.pc = "done"
    /\ run' = IdleRun
    /\ UNCHANGED <<callVars, acts, cfg, useGroqPrimary, sessionVars, llm>>

NextLoop ==
    \/ RunEnter
    \/ ThinkRaises
    \/ ThinkText
    \/ ThinkTools
    \/ Act
    \/ MaxIterationsReached
    \/ GroqFallback
    \/ Heuristic
    \/ RunReturn

SpecLoop == InitLoop /\ [][NextLoop]_vars

\* ------------------------------------------- the tool calls of one run()
\* run() with the tool calls it executes counted.  run() keeps no such
\* count itself: acts is a history of the calls that reached a tool
\* implementation through execute_tool.
TerminalTools == {"ask_followup", "give_hint", "advance_to_next", "end_interview"}
InfoTools == {"respond_to_candidate", "analyze_answer", "evaluate_code"}

\* agent_guardrails: the per-tool caps and the ceiling on tool calls.  run()
\* calls neither validate_tool_call nor check_loop_status.
MAX_TOOL_CALLS_PER_TYPE(name) == IF name \in TerminalTools THEN 1 ELSE 2
MAX_TOTAL_TOOL_CALLS == 10
CIRCULAR_REPEATS == 4

\* counters stop at these values
MaxCount == 3
MaxStreak == 4

\* acts after execute_tool ran call with result r; a name outside
\* TOOL_IMPLEMENTATIONS reaches no implementation
Logged(a, call, r) ==
    IF call.name \notin ToolNames THEN a
    ELSE [a EXCEPT !.total = @ + 1,
                   !.last = IF call.name \in TerminalTools THEN call.name ELSE "info",
                   !.ok = r.success,
                   !.count = IF call.name = a.watched THEN Min(@ + 1, MaxCount) ELSE @,
                   !.streak = IF call.name = a.watched THEN Min(@ + 1, MaxStreak) ELSE 0]

InitActs ==
    /\ cfg = [gemini |-> TRUE, groq |-> FALSE, testMode |-> FALSE]
    /\ useGroqPrimary = FALSE
    /\ created = FALSE
    /\ plan = << >>
    /\ conversation_state = EmptyState
    /\ ended_at = FALSE
    /\ turns = << >>
    /\ pc = [w \in Workers |-> "idle"]
    /\ loc = [w \in Workers |-> IdleLoc]
    /\ resp = [w \in Workers |-> NoResp]
    /\ run = IdleRun
    /\ llm = IdleLlm
    /\ acts = NoActs
    /\ filter = NoFilter
    /\ selection = NoSelection
    /\ engine = NoEngine
    /\ store = NoStore
    /\ style = NoStyle

\* run() is entered on the first or the last slot of a two-slot plan
RunEnterCounted ==
    /\ run.pc = "idle"
    /\ \E qi \in 0..1, watched \in ToolNames :
          /\ run' = [IdleRun EXCEPT !.pc = "think",
                                    !.ans = [code |-> FALSE, text |-> "short"],
                                    !.question_index = qi, !.total_questions = 2]
          /\ acts' = [NoActs EXCEPT !.watched = watched]
    /\ UNCHANGED <<callVars, cfg, useGroqPrimary, sessionVars, llm>>

\* the tool calls drawn here: every tool with every outcome, the data
\* carrying no score
CountedCalls == {call \in ToolCalls : call.score = NoScore}

ActCounted ==
    /\ \E call \in CountedCalls :
          /\ ActCall(call)
          /\ acts' = Logged(acts, call, execute_tool(call))
    /\ UNCHANGED <<callVars, cfg, useGroqPrimary, sessionVars, llm>>

NextActs ==
    \/ RunEnterCounted
    \/ ThinkRaises
    \/ ThinkText
    \/ ThinkTools
    \/ ActCounted
    \/ MaxIterationsReached
    \/ GroqFallback
    \/ Heuristic
    \/ RunReturn

SpecActs == InitActs /\ [][NextActs]_vars

\* ----------------------------------------------------- the LLM clients
\* is_rate_limit_error on the errors a backend call can end with
ErrorKinds == {"rate_limit", "other", "malformed"}

is_rate_limit_error(err) == err = "rate_limit"

\* stop_after_attempt of the retry decorator of a backend function; call_groq
\* carries no decorator
MaxAttempts(backend) ==
    IF backend = "call_gemini" THEN GeminiTextAttempts
    ELSE IF backend = "generate_with_tools" THEN GeminiToolAttempts
    ELSE 1

\* whether the decorator re-enters the function after its attempts-th
\* attempt ended with err
Retries(backend, err, attempts) ==
    /\ backend \in {"call_gemini", "generate_with_tools"}
    /\ is_rate_limit_error(err)
    /\ attempts < MaxAttempts(backend)

Configured(backend) ==
    IF backend = "call_groq" THEN cfg.groq ELSE cfg.gemini

\* _get_default_preference
get_default_preference == IF useGroqPrimary THEN "groq" ELSE "gemini"

\* the backend function call_llm picks; None when no backend is configured
PickBackend(prefer) ==
    IF prefer = "groq"
    THEN IF cfg.groq THEN "call_groq" ELSE IF cfg.gemini THEN "call_gemini" ELSE None
    ELSE IF cfg.gemini THEN "call_gemini" ELSE IF cfg.groq THEN "call_groq" ELSE None

InitLLM ==
    /\ cfg \in {c \in Configs : ~c.testMode}
    /\ useGroqPrimary \in BOOLEAN
    /\ created = FALSE
    /\ plan = << >>
    /\ conversation_state = EmptyState
    /\ ended_at = FALSE
    /\ turns = << >>
    /\ pc = [w \in Workers |-> "idle"]
    /\ loc = [w \in Workers |-> IdleLoc]
    /\ resp = [w \in Workers |-> NoResp]
    /\ run = IdleRun
    /\ llm = IdleLlm
    /\ acts = NoActs
    /\ filter = NoFilter
    /\ selection = NoSelection
    /\ engine = NoEngine
    /\ store = NoStore
    /\ style = NoStyle

\* call_llm is entered
CallLlm ==
    /\ llm.pc = "idle"
    /\ \E prefer \in {None, "gemini", "groq"} :
          LET p == IF prefer = None THEN get_default_preference ELSE prefer
              b == PickBackend(p)
              l == [IdleLlm EXCEPT !.fn = "call_llm", !.prefer = p, !.backend = b]
          IN  llm' = IF b = None
                     THEN [l EXCEPT !.pc = "raised", !.err = "unconfigured"]
                     ELSE [l EXCEPT !.pc = "calling"]
    /\ UNCHANGED <<callVars, acts, cfg, useGroqPrimary, sessionVars, run>>

\* call_gemini (cv_analyzer) or generate_with_tools (run) is entered directly
CallDirect ==
    /\ llm.pc = "idle"
    /\ \E b \in {"call_gemini", "generate_with_tools"} :
          llm' = [IdleLlm EXCEPT !.fn = b, !.backend = b, !.pc = "calling",
                                 !.prefer = "gemini"]
    /\ UNCHANGED <<callVars, acts, cfg, useGroqPrimary, sessionVars, run>>

\* one attempt of the backend function returns text
AttemptReturns ==
    /\ llm.pc = "calling"
    /\ Configured(llm.backend)
    /\ llm' = [llm EXCEPT !.pc = "returned", !.attempts = @ + 1,
                          !.log = Append(@, llm.backend), !.result = "text",
                          !.err = None]
    /\ UNCHANGED <<callVars, acts, cfg, useGroqPrimary, sessionVars, run>>

\* one attempt of the backend function raises; the decorator retries or the
\* error leaves the function
AttemptRaises ==
    /\ llm.pc = "calling"
    /\ \E err \in IF Configured(llm.backend) THEN ErrorKinds ELSE {"unconfigured"} :
          llm' = [llm EXCEPT !.attempts = @ + 1,
                             !.log = Append(@, llm.backend),
                             !.err = err,
                             !.pc = IF Retries(llm.backend, err, llm.attempts + 1)
                                    THEN "calling" ELSE "raised",
                             !.result = IF Retries(llm.backend, err, llm.attempts + 1)
                                        THEN None ELSE "error"]
    /\ UNCHANGED <<callVars, acts, cfg, useGroqPrimary, sessionVars, run>>

\* the caller has the text or the error
LlmDone ==
    /\ llm.pc \in {"returned", "raised"}
    /\ llm' = IdleLlm
    /\ UNCHANGED <<callVars, acts, cfg, useGroqPrimary, sessionVars, run>>

NextLLM ==
    \/ CallLlm
    \/ CallDirect
    \/ AttemptReturns
    \/ AttemptRaises
    \/ LlmDone

SpecLLM == InitLLM /\ [][NextLLM]_vars

\* ------------------------------------ two requests against one session
\* process_turn taken step by step, one step per database access: the
\* state load and refinement save (Begin), the turn count read by
\* _create_turn (CreateTurn), the turn commit (CommitTurn), and the commits
\* of _process_decision (ApplyDecision).  next_interview_step takes no lock,
\* so the steps of two requests interleave freely.
InitConc ==
    /\ cfg \in {c \in Configs : ~c.gemini /\ ~c.groq}
    /\ useGroqPrimary = FALSE
    /\ created = FALSE
    /\ plan = << >>
    /\ conversation_state = EmptyState
    /\ ended_at = FALSE
    /\ turns = << >>
    /\ pc = [w \in Workers |-> "idle"]
    /\ loc = [w \in Workers |-> IdleLoc]
    /\ resp = [w \in Workers |-> NoResp]
    /\ run = IdleRun
    /\ llm = IdleLlm
    /\ acts = NoActs
    /\ filter = NoFilter
    /\ selection = NoSelection
    /\ engine = NoEngine
    /\ store = NoStore
    /\ style = NoStyle

StartConc ==
    /\ \A w \in Workers : pc[w] = "idle"
    /\ StartInterview

\* the router's ended_at check, _load_state, the completion check, the
\* refinement save and the reasoning loop
Begin(w) ==
    /\ created
    /\ pc[w] = "idle"
    /\ \E ans \in Answers :
        LET state0 == load_state(conversation_state)
            qi == state0.question_index
            fc == state0.followup_count
            question_id == QuestionId(state0, plan)
            state == Refine(state0, qi)
        IN  IF ended_at
            THEN /\ resp' = [resp EXCEPT ![w] =
                        [NoResp EXCEPT !.op = "submit", !.status = "rejected",
                                       !.qi0 = qi, !.fc0 = fc]]
                 /\ UNCHANGED <<conversation_state, ended_at, pc, loc>>
            ELSE IF fc = 0 /\ qi >= Len(plan)
            THEN /\ ended_at' = TRUE
                 /\ resp' = [resp EXCEPT ![w] =
                        [NoResp EXCEPT !.op = "submit", !.status = "complete",
                                       !.is_done = TRUE, !.qi0 = qi, !.fc0 = fc]]
                 /\ UNCHANGED <<conversation_state, pc, loc>>
            ELSE IF question_id = 0
            THEN /\ resp' = [resp EXCEPT ![w] =
                        [NoResp EXCEPT !.op = "submit", !.status = "error",
                                       !.is_done = TRUE, !.qi0 = qi, !.fc0 = fc]]
                 /\ UNCHANGED <<conversation_state, ended_at, pc, loc>>
            ELSE /\ Len(turns) < MaxTurns
                 /\ conversation_state' = state
                 /\ \E out \in RunOutcomes(cfg, FALSE, ans, fc, qi, Len(plan)) :
                       loc' = [loc EXCEPT ![w] =
                                  [IdleLoc EXCEPT !.ans = ans, !.state = state,
                                                  !.question_id = question_id,
                                                  !.out = out]]
                 /\ pc' = [pc EXCEPT ![w] = "create"]
                 /\ UNCHANGED <<ended_at, resp>>
    /\ UNCHANGED <<callVars, acts, cfg, useGroqPrimary, created, plan, turns, run, llm>>

\* _create_turn: the row is built from the turns committed so far
CreateTurn(w) ==
    /\ pc[w] = "create"
    /\ loc' = [loc EXCEPT ![w].turn =
                  create_turn(w, loc[w].state, loc[w].question_id, turns)]
    /\ pc' = [pc EXCEPT ![w] = "commit"]
    /\ UNCHANGED <<callVars, acts, cfg, useGroqPrimary, created, plan, conversation_state, ended_at,
                   turns, resp, run, llm>>

\* session.add(turn); session.commit()
CommitTurn(w) ==
    /\ pc[w] = "commit"
    /\ turns' = Append(turns, loc[w].turn)
    /\ pc' = [pc EXCEPT ![w] = "apply"]
    /\ UNCHANGED <<callVars, acts, cfg, useGroqPrimary, created, plan, conversation_state, ended_at,
                   loc, resp, run, llm>>

\* _process_decision: the local state is changed and saved as a whole
ApplyDecision(w) ==
    /\ pc[w] = "apply"
    /\ LET l == loc[w]
           pd == process_decision(l.out.dec, l.state, l.question_id, plan)
       IN  /\ conversation_state' = IF pd.updated THEN pd.state ELSE conversation_state
           /\ ended_at' = (ended_at \/ pd.ended)
           /\ \E overall \in create_turn_overall(cfg, FALSE, l.ans, l.out.dec) :
                 resp' = [resp EXCEPT ![w] =
                            Response(l.state, l.ans, FALSE, l.out, overall, pd)]
    /\ pc' = [pc EXCEPT ![w] = "idle"]
    /\ loc' = [loc EXCEPT ![w] = IdleLoc]
    /\ UNCHANGED <<callVars, acts, cfg, useGroqPrimary, created, plan, turns, run, llm>>

NextConc ==
    \/ StartConc
    \/ \E w \in Workers : Begin(w)
    \/ \E w \in Workers : CreateTurn(w)
    \/ \E w \in Workers : CommitTurn(w)
    \/ \E w \in Workers : ApplyDecision(w)

SpecConc == InitConc /\ [][NextConc]_vars

\* ------------------------------------------- a request that fails midway
\* process_turn commits three times: the refinement save, the turn, and the
\* state save of _process_decision.  A failure (a commit that raises, a
\* lookup that raises, the process dying) leaves what was committed before
\* it: "before_turn" is a failure before line 217, "after_turn" one between
\* the turn commit and the state save, "after_state" one after the state
\* save.  The caller gets HTTP 500.
FailurePoints == {"before_turn", "after_turn", "after_state"}

SubmitAnswerFails(w) ==
    /\ created
    /\ ~ended_at
    /\ Len(turns) < MaxTurns
    /\ \E ans \in Answers, point \in FailurePoints :
        LET state0 == load_state(conversation_state)
            qi == state0.question_index
            fc == state0.followup_count
            question_id == QuestionId(state0, plan)
            state == Refine(state0, qi)
        IN  /\ ~(fc = 0 /\ qi >= Len(plan))
            /\ question_id # 0
            /\ \E out \in RunOutcomes(cfg, FALSE, ans, fc, qi, Len(plan)) :
               \E overall \in create_turn_overall(cfg, FALSE, ans, out.dec) :
                  LET pd == process_decision(out.dec, state, question_id, plan)
                      full == Response(state, ans, FALSE, out, overall, pd)
                  IN  /\ turns' = IF point = "before_turn" THEN turns
                                  ELSE Append(turns, create_turn(w, state, question_id, turns))
                      /\ conversation_state' =
                            IF point = "after_state" /\ pd.updated THEN pd.state
                            ELSE state
                      /\ resp' = [resp EXCEPT ![w] =
                            [full EXCEPT !.status = "failed",
                                         !.recorded = IF point = "before_turn" THEN 0 ELSE 1,
                                         !.updated = point = "after_state" /\ pd.updated]]
    /\ UNCHANGED <<callVars, acts, cfg, useGroqPrimary, created, plan, ended_at, pc, loc, run, llm>>

NextCrash ==
    \/ StartInterview
    \/ SubmitAnswer(1)
    \/ SubmitAnswerFails(1)
    \/ SkipToCode
    \/ EndInterview

SpecCrash == InitConc /\ [][NextCrash]_vars

\* ================================================ question content filter
\* A question text, lower-cased, is the sequence of its words.  A phrase
\* occurs in a text when its words occur there one after the other: this is
\* `exc in lower` for the phrases of SAFE_EXCEPTIONS and re.search with \b
\* on both sides for the alternatives of UNSAFE_PATTERNS, over a vocabulary
\* in which no word is part of another.
Vocabulary == {"race", "condition", "data", "age", "explain"}
MaxWords == 3
Texts == UNION {[1..n -> Vocabulary] : n \in 0..MaxWords}

OccursAt(phrase, text, i) ==
    /\ i >= 1
    /\ i + Len(phrase) - 1 <= Len(text)
    /\ SubSeq(text, i, i + Len(phrase) - 1) = phrase

Occurs(phrase, text) == \E i \in 1..Len(text) : OccursAt(phrase, text, i)

\* the alternatives of UNSAFE_PATTERNS that the vocabulary can spell
UNSAFE_PATTERNS == {<<"age">>, <<"race">>}

SAFE_EXCEPTIONS == {<<"race", "condition">>, <<"data", "race">>}

is_question_allowed(question) ==
    IF question = << >> THEN TRUE
    ELSE IF \E exc \in SAFE_EXCEPTIONS : Occurs(exc, question) THEN TRUE
    ELSE IF \E pattern \in UNSAFE_PATTERNS : Occurs(pattern, question) THEN FALSE
    ELSE TRUE

filter_question(question) ==
    IF is_question_allowed(question) THEN question ELSE None

InitFilter ==
    /\ cfg = [gemini |-> TRUE, groq |-> FALSE, testMode |-> FALSE]
    /\ useGroqPrimary = FALSE
    /\ created = FALSE
    /\ plan = << >>
    /\ conversation_state = EmptyState
    /\ ended_at = FALSE
    /\ turns = << >>
    /\ pc = [w \in Workers |-> "idle"]
    /\ loc = [w \in Workers |-> IdleLoc]
    /\ resp = [w \in Workers |-> NoResp]
    /\ run = IdleRun
    /\ llm = IdleLlm
    /\ acts = NoActs
    /\ filter \in {[NoFilter EXCEPT !.pc = "called", !.question = q] : q \in Texts}
    /\ selection = NoSelection
    /\ engine = NoEngine
    /\ store = NoStore
    /\ style = NoStyle

\* filter_question(question) returns
FilterQuestion ==
    /\ filter.pc = "called"
    /\ filter' = [filter EXCEPT !.pc = "done",
                                !.allowed = is_question_allowed(filter.question),
                                !.returned = filter_question(filter.question)]
    /\ UNCHANGED <<cfg, useGroqPrimary, sessionVars, run, llm, acts, selection, engine,
                   store, style>>

NextFilter == FilterQuestion

SpecFilter == InitFilter /\ [][NextFilter]_vars

\* ======================================================= question selection
\* build_interview_plan, taken on its own over a question bank and a history
\* of earlier sessions.  A bank row carries its type, the words of its text,
\* its topics, its difficulty and final_score, the level of
\* base_score * style_multiplier (0 when no topic of the row is weighted).
QuestionBank ==
    <<[question_type |-> "open", question_text |-> <<"explain", "data">>,
       topics |-> {"teamwork", "conflict"}, difficulty |-> None, final_score |-> 2],
      [question_type |-> "open", question_text |-> <<"explain", "condition">>,
       topics |-> {"teamwork", "conflict"}, difficulty |-> None, final_score |-> 1],
      [question_type |-> "open", question_text |-> <<"explain">>,
       topics |-> {"goals"}, difficulty |-> None, final_score |-> 0],
      [question_type |-> "open", question_text |-> <<"explain", "age">>,
       topics |-> {"career"}, difficulty |-> None, final_score |-> 2],
      [question_type |-> "code", question_text |-> <<"data">>,
       topics |-> {"arrays"}, difficulty |-> "Easy", final_score |-> 1],
      [question_type |-> "code", question_text |-> <<"condition">>,
       topics |-> {"graphs"}, difficulty |-> "Medium", final_score |-> 1],
      [question_type |-> "code", question_text |-> <<"explain", "race", "condition">>,
       topics |-> {"concurrency"}, difficulty |-> "Hard", final_score |-> 2],
      [question_type |-> "code", question_text |-> <<"data", "condition">>,
       topics |-> {"graphs"}, difficulty |-> None, final_score |-> 0]>>

QuestionIds == DOMAIN QuestionBank
OpenIds == {q \in QuestionIds : QuestionBank[q].question_type = "open"}
CodeIds == {q \in QuestionIds : QuestionBank[q].question_type = "code"}

\* earlier sessions: days since created_at, whether the session is of this
\* user and job spec, and the question ids of its turns
Sessions ==
    {[age |-> 1, mine |-> TRUE, asked |-> {1, 5}],
     [age |-> 2, mine |-> FALSE, asked |-> {3}],
     [age |-> 3, mine |-> TRUE, asked |-> {2}],
     [age |-> 4, mine |-> TRUE, asked |-> {3, 6}],
     [age |-> 6, mine |-> TRUE, asked |-> {7}],
     [age |-> 8, mine |-> TRUE, asked |-> {8}]}

max_days == 7
max_sessions == 3

\* the largest num_open and num_code asked for
MaxSlots == 2

SENSITIVE_PHRASES == {<<"leave", "company">>}
UNSAFE_KEYWORD_PATTERN == {<<"age">>, <<"race">>}

\* _is_question_allowed of selection.py
selection_is_question_allowed(question_text) ==
    IF \E phrase \in SENSITIVE_PHRASES : Occurs(phrase, question_text) THEN FALSE
    ELSE IF \E kw \in UNSAFE_KEYWORD_PATTERN : Occurs(kw, question_text) THEN FALSE
    ELSE TRUE

\* variant: nothing was asked recently
no_recent_question_ids(history) == {}

\* _get_recent_question_ids: the sessions of this user and job spec created
\* since the cutoff, the max_sessions latest of them, and their turns' ids
get_recent_question_ids(history) ==
    LET since == {h \in history : h.mine /\ h.age <= max_days}
        recent_sessions ==
            {h \in since : Cardinality({g \in since : g.age < h.age}) < max_sessions}
    IN  UNION {h.asked : h \in recent_sessions}

\* scored.sort(key=score, reverse=True) over rows in the order of the query
RECURSIVE SortedByScore(_)
SortedByScore(ids) ==
    IF ids = {} THEN << >>
    ELSE LET first == CHOOSE q \in ids : \A r \in ids :
                         \/ QuestionBank[q].final_score > QuestionBank[r].final_score
                         \/ /\ QuestionBank[q].final_score = QuestionBank[r].final_score
                            /\ q <= r
         IN  <<first>> \o SortedByScore(ids \ {first})

Range(f) == {f[i] : i \in DOMAIN f}

\* lines 350-372 of _select_questions: the candidates left by the exclusion
\* and the text filter, and candidates_pool, the top_k best of them
Candidates(bank, question_type, exclude_ids) ==
    {q \in bank : /\ QuestionBank[q].question_type = question_type
                  /\ q \notin exclude_ids
                  /\ selection_is_question_allowed(QuestionBank[q].question_text)}

CandidatesPool(candidates, num_questions) ==
    LET scored == SortedByScore(candidates)
        top_k == Min(num_questions * 3, Len(scored))
    IN  Range(SubSeq(scored, 1, top_k))

\* the Jaccard overlap of two topic sets is more than 0.7
Over07(a, b) ==
    /\ Cardinality(a \cup b) > 0
    /\ 10 * Cardinality(a \cap b) > 7 * Cardinality(a \cup b)

\* max_overlap > 0.7 against the questions selected so far
MaxOverlapHigh(q, selected) ==
    \E i \in 1..Len(selected) :
        Over07(QuestionBank[q].topics, QuestionBank[selected[i]].topics)

\* variant: a chosen question is never skipped
NeverSkipped(q, selected, remaining) == FALSE

\* line 405: the chosen question is dropped from the pool
Skipped(q, selected, remaining) ==
    MaxOverlapHigh(q, selected) /\ Cardinality(remaining) > 1

\* random.choices with weights s ** 2, random.choice when they sum to 0
Choices(remaining) ==
    IF \A q \in remaining : QuestionBank[q].final_score = 0 THEN remaining
    ELSE {q \in remaining : QuestionBank[q].final_score > 0}

\* lines 135-139: the tier list a code question is put in
Tier(q) ==
    IF QuestionBank[q].difficulty \in {"Easy", "Medium", "Hard"}
    THEN QuestionBank[q].difficulty ELSE "Medium"

TierRank(d) == IF d = "Easy" THEN 1 ELSE IF d = "Medium" THEN 2 ELSE 3

ByDifficulty(code_questions) ==
    [d \in {"Easy", "Medium", "Hard"} |->
        SelectSeq(code_questions, LAMBDA q : Tier(q) = d)]

Candidate(q, d) == [question_id |-> q, difficulty |-> d]

\* lines 141-166: the slots built from the tier lists, num_code of them at
\* most; a slot takes the head of each tier list while it holds fewer than
\* 2 candidates
RECURSIVE CodeSlots(_, _)
CodeSlots(by, n) ==
    IF n = 0 THEN << >>
    ELSE LET e == IF by["Easy"] # << >> THEN <<Candidate(Head(by["Easy"]), "Easy")>>
                  ELSE << >>
             m == IF by["Medium"] # << >> /\ Len(e) < 2
                  THEN <<Candidate(Head(by["Medium"]), "Medium")>> ELSE << >>
             h == IF by["Hard"] # << >> /\ Len(e) + Len(m) < 2
                  THEN <<Candidate(Head(by["Hard"]), "Hard")>> ELSE << >>
             candidates == e \o m \o h
             rest == [d \in {"Easy", "Medium", "Hard"} |->
                        IF \E i \in 1..Len(candidates) : candidates[i].difficulty = d
                        THEN Tail(by[d]) ELSE by[d]]
         IN  (IF candidates = << >> THEN << >>
              ELSE <<[type |-> "code", candidates |-> candidates,
                      selected_question_id |-> candidates[1].question_id]>>)
             \o CodeSlots(rest, n - 1)

OpenSlot(q) ==
    [type |-> "open", candidates |-> <<Candidate(q, None)>>,
     selected_question_id |-> q]

\* _select_questions is entered: pool is candidates_pool
Selecting(sl, question_type, num_questions) ==
    LET pool == CandidatesPool(Candidates(sl.bank, question_type, sl.recent),
                               num_questions)
    IN  [sl EXCEPT !.pc = question_type, !.num = num_questions,
                   !.pool0 = pool, !.pool = pool, !.selected = << >>]

InitSelection ==
    /\ cfg = [gemini |-> TRUE, groq |-> FALSE, testMode |-> FALSE]
    /\ useGroqPrimary = FALSE
    /\ created = FALSE
    /\ plan = << >>
    /\ conversation_state = EmptyState
    /\ ended_at = FALSE
    /\ turns = << >>
    /\ pc = [w \in Workers |-> "idle"]
    /\ loc = [w \in Workers |-> IdleLoc]
    /\ resp = [w \in Workers |-> NoResp]
    /\ run = IdleRun
    /\ llm = IdleLlm
    /\ acts = NoActs
    /\ filter = NoFilter
    /\ \E open \in SUBSET OpenIds, code \in SUBSET CodeIds, history \in SUBSET Sessions,
          num_open \in 1..MaxSlots, num_code \in 1..MaxSlots :
          selection = [pc |-> "called", bank |-> open \cup code, history |-> history,
                       num_open |-> num_open, num_code |-> num_code,
                       recent |-> {}, num |-> 0, pool0 |-> {}, pool |-> {},
                       selected |-> << >>, open |-> << >>, code |-> << >>,
                       items |-> << >>]
    /\ engine = NoEngine
    /\ store = NoStore
    /\ style = NoStyle

selectionFrame ==
    <<cfg, useGroqPrimary, sessionVars, run, llm, acts, filter, engine, store, style>>

\* build_interview_plan up to the first _select_questions call
BuildPlan ==
    /\ selection.pc = "called"
    /\ selection' =
          Selecting([selection EXCEPT
                        !.recent = get_recent_question_ids(selection.history)],
                    "open", selection.num_open)
    /\ UNCHANGED selectionFrame

\* one iteration of the sampling loop of _select_questions
Sample ==
    /\ selection.pc \in {"open", "code"}
    /\ Len(selection.selected) < selection.num
    /\ LET remaining == selection.pool \ Range(selection.selected)
       IN  /\ remaining # {}
           /\ \E chosen \in Choices(remaining) :
                 selection' =
                    IF Skipped(chosen, selection.selected, remaining)
                    THEN [selection EXCEPT !.pool = @ \ {chosen}]
                    ELSE [selection EXCEPT !.selected = Append(@, chosen)]
    /\ UNCHANGED selectionFrame

\* _select_questions returns: the open questions become slots and the code
\* questions are selected, or the code slots are built and the plan returned
SelectReturn ==
    /\ selection.pc \in {"open", "code"}
    /\ \/ Len(selection.selected) >= selection.num
       \/ selection.pool \ Range(selection.selected) = {}
    /\ selection' =
          IF selection.pc = "open"
          THEN Selecting([selection EXCEPT
                              !.open = selection.selected,
                              !.items = [i \in 1..Len(selection.selected) |->
                                            OpenSlot(selection.selected[i])]],
                         "code", selection.num_code * 3)
          ELSE [selection EXCEPT
                   !.pc = "done",
                   !.code = selection.selected,
                   !.items = @ \o CodeSlots(ByDifficulty(selection.selected),
                                            selection.num_code)]
    /\ UNCHANGED selectionFrame

NextSelection ==
    \/ BuildPlan
    \/ Sample
    \/ SelectReturn

SpecSelection == InitSelection /\ [][NextSelection]_vars

\* ================================================ interview engine (src/interview)
\* get_next_question and process_answer of the engine, on a stored plan of two
\* items.  A plan item has question_type, question_id and, for code, the
\* candidates the plan builder sorted from easy to hard, the first of them
\* being question_id.  Question ids are 10 * slot + difficulty rank, the
\* slots counted from 1.
Alternates ==
    {<<"Easy">>, <<"Easy", "Medium">>, <<"Easy", "Hard">>, <<"Medium", "Hard">>,
     <<"Easy", "Medium", "Hard">>}

EngineItem(slot, question_type, difficulties) ==
    LET candidates == [k \in 1..Len(difficulties) |->
                          [question_id |-> 10 * slot + TierRank(difficulties[k]),
                           difficulty |-> difficulties[k]]]
    IN  [question_type |-> question_type,
         question_id |-> IF question_type = "code" THEN candidates[1].question_id
                         ELSE 10 * slot,
         candidates |-> IF question_type = "code" THEN candidates ELSE << >>]

EnginePlans ==
    {<<EngineItem(1, "open", << >>), EngineItem(2, "code", a)>> : a \in Alternates}
    \cup {<<EngineItem(1, "code", a), EngineItem(2, "code", b)>> :
             a \in Alternates, b \in Alternates}

\* overall_score of score_answer on the engine's scale of 0..100, NoneVal
\* when score_json has no overall_score
EngineScores == {NoneVal, 40, 70, 90}

\* candidates.sort(key=rank): a stable sort of the candidates by rank,
\* ascending, or descending when rank is negated
RECURSIVE SortCandidates(_, _)
SortCandidates(candidates, sign) ==
    IF candidates = << >> THEN << >>
    ELSE LET i == CHOOSE i \in 1..Len(candidates) :
                     \A j \in 1..Len(candidates) :
                        \/ sign * TierRank(candidates[i].difficulty)
                              < sign * TierRank(candidates[j].difficulty)
                        \/ /\ TierRank(candidates[i].difficulty)
                                 = TierRank(candidates[j].difficulty)
                           /\ i <= j
         IN  <<candidates[i]>> \o
             SortCandidates([k \in 1..(Len(candidates) - 1) |->
                                IF k < i THEN candidates[k] ELSE candidates[k + 1]],
                            sign)

\* get_next_question: the id of the question returned (0 for None); the
\* plan it adapts is the copy parsed from interview_session.plan
get_next_question(p, current_turn_number, last_score) ==
    IF current_turn_number >= Len(p) THEN 0
    ELSE LET plan_item == p[current_turn_number + 1]
             candidates == plan_item.candidates
         IN  IF plan_item.question_type = "code" /\ candidates # << >>
             THEN IF last_score # NoneVal /\ Len(candidates) > 1
                  THEN IF last_score < 60
                       THEN SortCandidates(candidates, 1)[1].question_id
                       ELSE IF last_score > 85
                       THEN SortCandidates(candidates, -1)[1].question_id
                       ELSE candidates[1].question_id
                  ELSE candidates[1].question_id
             ELSE plan_item.question_id

InitEngine ==
    /\ cfg = [gemini |-> TRUE, groq |-> FALSE, testMode |-> FALSE]
    /\ useGroqPrimary = FALSE
    /\ created = FALSE
    /\ plan = << >>
    /\ conversation_state = EmptyState
    /\ ended_at = FALSE
    /\ turns = << >>
    /\ pc = [w \in Workers |-> "idle"]
    /\ loc = [w \in Workers |-> IdleLoc]
    /\ resp = [w \in Workers |-> NoResp]
    /\ run = IdleRun
    /\ llm = IdleLlm
    /\ acts = NoActs
    /\ filter = NoFilter
    /\ selection = NoSelection
    /\ engine = [pc |-> "idle", plan |-> << >>, presented |-> 0, last_score |-> NoneVal,
                 turns |-> << >>]
    /\ store = NoStore
    /\ style = NoStyle

engineFrame ==
    <<cfg, useGroqPrimary, sessionVars, run, llm, acts, filter, selection, store, style>>

\* POST /api/interview/start: the session is stored and the first question
\* is fetched without a score
EngineStart ==
    /\ engine.pc = "idle"
    /\ \E p \in EnginePlans :
          engine' = [engine EXCEPT !.pc = "active", !.plan = p,
                                   !.presented = get_next_question(p, 0, NoneVal)]
    /\ UNCHANGED engineFrame

\* POST /api/interview/next: process_answer for the next turn number
ProcessAnswer ==
    /\ engine.pc = "active"
    /\ LET turn_number == Len(engine.turns)
           plan_item == engine.plan[turn_number + 1]
       IN  \E overall_score \in EngineScores :
              engine' =
                 [engine EXCEPT
                    !.turns = Append(@, [turn_number |-> turn_number,
                                         question_id |-> plan_item.question_id,
                                         presented |-> engine.presented]),
                    !.last_score = overall_score,
                    !.presented = IF turn_number + 1 < Len(engine.plan)
                                  THEN get_next_question(engine.plan, turn_number + 1,
                                                         overall_score)
                                  ELSE 0,
                    !.pc = IF turn_number + 1 < Len(engine.plan)
                           THEN "active" ELSE "completed"]
    /\ UNCHANGED engineFrame

NextEngine ==
    \/ EngineStart
    \/ ProcessAnswer

SpecEngine == InitEngine /\ [][NextEngine]_vars

\* ------------------------------------------- start_interview and the store
\* One candidate and one role.  store.sessions are the InterviewSession rows
\* in insertion order (first: selected_question_id of the first plan item, 0
\* for a plan without items; refined: refined_q_0 was saved into the row),
\* store.history the question ids of the QuestionHistory rows, whose primary
\* key is (user_id, job_spec_id, question_id).
MaxStarts == 4
MaxFirst == 2

\* the handler: the session row is committed, then the plan is inspected, then
\* the QuestionHistory row is inserted and committed (the insert of a key
\* that exists fails and the handler answers 500), then the refined first
\* question is saved into the session row
start_interview(st, first) ==
    LET row == [first |-> first, refined |-> FALSE]
        committed == [st EXCEPT !.sessions = Append(@, row)]
    IN  IF first = 0
        THEN [committed EXCEPT !.resp = [status |-> "error", first |-> first]]
        ELSE IF first \in st.history
        THEN [committed EXCEPT !.resp = [status |-> "error", first |-> first]]
        ELSE [committed EXCEPT
                 !.history = @ \cup {first},
                 !.sessions[Len(committed.sessions)].refined = TRUE,
                 !.resp = [status |-> "ok", first |-> first]]

InitStart ==
    /\ cfg = [gemini |-> TRUE, groq |-> FALSE, testMode |-> FALSE]
    /\ useGroqPrimary = FALSE
    /\ created = FALSE
    /\ plan = << >>
    /\ conversation_state = EmptyState
    /\ ended_at = FALSE
    /\ turns = << >>
    /\ pc = [w \in Workers |-> "idle"]
    /\ loc = [w \in Workers |-> IdleLoc]
    /\ resp = [w \in Workers |-> NoResp]
    /\ run = IdleRun
    /\ llm = IdleLlm
    /\ acts = NoActs
    /\ filter = NoFilter
    /\ selection = NoSelection
    /\ engine = NoEngine
    /\ store = NoStore
    /\ style = NoStyle

\* POST /api/interview/start for a plan whose first item selects question
\* first (0: the plan has no items)
StartCall ==
    /\ Len(store.sessions) < MaxStarts
    /\ \E first \in 0..MaxFirst : store' = start_interview(store, first)
    /\ UNCHANGED <<cfg, useGroqPrimary, sessionVars, run, llm, acts, filter, selection,
                   engine, style>>

NextStart == StartCall

SpecStart == InitStart /\ [][NextStart]_vars

\* --------------------------------------------- style weighting of the plan
\* Boosts are integers in thousandths (2.0 is 2000).  A question's topics are
\* taken by their counts: total topics, of which technical match
\* TECHNICAL_TOPICS and personal match PERSONAL_TOPICS (a topic can match
\* both lists).  A multiplier is the fraction num/den of thousandths.
MaxTopics == 2
StyleValues == 0..100
SettingsKinds == {"typed", "dict"}

\* build_interview_plan's reading of question_style: the typed settings
\* object goes through "or 50", the key/value bag through get(..., 50);
\* NoneVal stands for a bag without the key
question_style_of(kind, s) ==
    IF kind = "typed"
    THEN IF s = 0 THEN 50 ELSE s
    ELSE IF s = NoneVal THEN 50 ELSE s

compute_style_weights(question_style) ==
    [technical_boost |-> 2000 - 17 * question_style,
     personal_boost  |-> 300 + 17 * question_style]

get_topic_style_score(total, technical, personal, style_weights) ==
    IF total = 0
    THEN [num |-> 1000, den |-> 1]
    ELSE LET multiplier == total * 1000
                             + technical * (style_weights.technical_boost - 1000)
                             + personal * (style_weights.personal_boost - 1000)
         IN  [num |-> Max(100 * total, multiplier), den |-> total]

InitStyle ==
    /\ cfg = [gemini |-> TRUE, groq |-> FALSE, testMode |-> FALSE]
    /\ useGroqPrimary = FALSE
    /\ created = FALSE
    /\ plan = << >>
    /\ conversation_state = EmptyState
    /\ ended_at = FALSE
    /\ turns = << >>
    /\ pc = [w \in Workers |-> "idle"]
    /\ loc = [w \in Workers |-> IdleLoc]
    /\ resp = [w \in Workers |-> NoResp]
    /\ run = IdleRun
    /\ llm = IdleLlm
    /\ acts = NoActs
    /\ filter = NoFilter
    /\ selection = NoSelection
    /\ engine = NoEngine
    /\ store = NoStore
    /\ \E kind \in SettingsKinds, total \in 0..MaxTopics :
          \E s \in StyleValues \cup (IF kind = "dict" THEN {NoneVal} ELSE {}),
             technical \in 0..total, personal \in 0..total :
              style = [pc |-> "called", kind |-> kind, s |-> s, total |-> total,
                       technical |-> technical, personal |-> personal,
                       question_style |-> NoneVal,
                       weights |-> [technical_boost |-> 0, personal_boost |-> 0],
                       multiplier |-> [num |-> 0, den |-> 1]]

\* the weights of the plan being built and the multiplier of one question
ComputeStyle ==
    /\ style.pc = "called"
    /\ LET question_style == question_style_of(style.kind, style.s)
           style_weights == compute_style_weights(question_style)
       IN  style' = [style EXCEPT
                        !.pc = "done",
                        !.question_style = question_style,
                        !.weights = style_weights,
                        !.multiplier = get_topic_style_score(style.total, style.technical,
                                                             style.personal, style_weights)]
    /\ UNCHANGED <<cfg, useGroqPrimary, sessionVars, run, llm, acts, filter, selection,
                   engine, store>>

NextStyle == ComputeStyle

SpecStyle == InitStyle /\ [][NextStyle]_vars

\* ================================================================ claims
LastResp == resp[1]

\* a submitAnswer that recorded a turn and returned normally
TurnRecorded == LastResp.op = "submit" /\ LastResp.status = "ok"

\* C1: after any sequence of startInterview / submitAnswer / skipToCode the
\* persisted followup_count never exceeds max_followups, and a turn taken
\* with the budget spent is never applied as another follow-up.
C1_FollowupBudget ==
    /\ conversation_state.followup_count <= max_followups
    /\ (TurnRecorded /\ LastResp.fc0 >= max_followups) => LastResp.applied # "followup"

\* C2: a recorded turn sets ended_at only for an end decision on the last
\* plan slot; an end decision on an earlier slot, whatever path of run()
\* produced it, is applied as advance: question_index + 1, ended_at unset.
C2_EndOnlyOnLastSlot ==
    TurnRecorded =>
        /\ ended_at => (LastResp.decision = "end" /\ LastResp.qi0 = Len(plan) - 1)
        /\ (LastResp.decision = "end" /\ LastResp.qi0 < Len(plan) - 1) =>
              /\ LastResp.applied = "advance"
              /\ conversation_state.question_index = LastResp.qi0 + 1
              /\ ~ended_at
        /\ (LastResp.decision = "end" /\ LastResp.qi0 = Len(plan) - 1) =>
              (LastResp.applied = "end" /\ ended_at)

\* C2 witness: run() returned end on a slot before the last, and the turn
\* was applied as advance
C2_Witness ==
    /\ TurnRecorded
    /\ LastResp.decision = "end"
    /\ LastResp.qi0 < Len(plan) - 1
    /\ LastResp.applied = "advance"

\* C3: two submitAnswer calls on one session behave as in some serial
\* order: no two turns of the session carry the same turn_index.
C3_DistinctTurnIndex ==
    \A i, j \in 1..Len(turns) : i # j => turns[i].turn_index # turns[j].turn_index

\* C4: a turn and its state change persist together or not at all, also
\* when submitAnswer fails midway: a request that left a turn whose
\* decision changes followup_count / previous_followups / question_index
\* has saved that change, and a request that left no turn has saved none.
C4_TurnAtomicWithState ==
    LastResp.op = "submit" =>
        /\ (LastResp.recorded = 1 /\ LastResp.applied \in {"followup", "advance"})
              => LastResp.updated
        /\ LastResp.recorded = 0 => ~LastResp.updated

\* C5: run() makes at most MAX_ITERATIONS backend queries and then returns
\* one decision whose action is followup, advance, hint or end; no exception
\* leaves it.
C5_RunReturnsDecision ==
    /\ run.queries <= MAX_ITERATIONS
    /\ run.pc = "done" =>
          /\ ~run.raised
          /\ run.decision.action \in {"followup", "advance", "hint", "end"}

\* C6: a run() entered with followup_count >= max_followups never returns
\* a followup decision, on any path.
C6_NoFollowupWhenExhausted ==
    (run.pc = "done" /\ ~run.raised /\ run.followup_count >= max_followups)
        => run.decision.action # "followup"

\* C7 as stated: with every backend call raising, a submitAnswer that
\* reaches the reasoning loop (outside test mode, where the loop is not
\* run) records one turn and returns a non-error response whose applied
\* action is advance, or end on the last plan slot.
C7_DegradedAdvancesOrEnds ==
    (LastResp.op = "submit" /\ LastResp.down /\ ~cfg.testMode) =>
        /\ LastResp.status = "ok"
        /\ LastResp.recorded = 1
        /\ \/ LastResp.applied = "advance"
           \/ LastResp.applied = "end" /\ LastResp.qi0 = Len(plan) - 1

\* the case in which the Groq fallback asks a canned follow-up although
\* every call fails: a Groq key is set, no code came with the answer, the
\* budget is not spent and the transcript has at most 100 characters
CannedFollowupCase ==
    /\ cfg.groq
    /\ ~LastResp.ans.code
    /\ LastResp.fc0 < max_followups
    /\ LastResp.ans.text # "long"

\* C7 amended: outside test mode, with every backend call raising, a
\* submitAnswer that reaches the reasoning loop records one turn and returns
\* a non-error response; the applied action is a follow-up with a canned
\* question in CannedFollowupCase, and otherwise advance, or end on the last
\* plan slot.
C7_DegradedTurn ==
    (LastResp.op = "submit" /\ LastResp.down /\ ~cfg.testMode) =>
        /\ LastResp.status = "ok"
        /\ LastResp.recorded = 1
        /\ IF CannedFollowupCase
           THEN /\ LastResp.applied = "followup"
                /\ LastResp.followup_question = "canned"
                /\ conversation_state.followup_count = LastResp.fc0 + 1
           ELSE \/ LastResp.applied = "advance"
                \/ LastResp.applied = "end" /\ LastResp.qi0 = Len(plan) - 1

\* C7 witness: a degraded turn that asked the canned follow-up
C7_Witness ==
    /\ LastResp.op = "submit"
    /\ LastResp.down
    /\ ~cfg.testMode
    /\ LastResp.applied = "followup"
    /\ LastResp.recorded = 1

\* C8: a call_llm that raises has tried every configured backend.
C8_FailsOverToOtherBackend ==
    (llm.pc = "raised" /\ llm.fn = "call_llm") =>
        LET tried == {llm.log[i] : i \in 1..Len(llm.log)}
        IN  /\ cfg.gemini => "call_gemini" \in tried
            /\ cfg.groq => "call_groq" \in tried

\* C9 as stated: in a run() whose primary query raised, Groq is called
\* exactly once before the decision is returned.
C9_GroqCalledOnce ==
    (run.pc = "done" /\ run.primaryFailed) => run.groqCalls = 1

\* C9 amended: in a run() whose primary query raised, the Groq fallback
\* procedure is entered exactly once, after the primary attempt and before
\* _fallback_decision; with a Groq key it makes 1 to 3 Groq calls and
\* returns the decision itself, without one it makes none and
\* _fallback_decision decides.
C9_FallbackOnceBeforeHeuristic ==
    run.primaryFailed =>
        /\ run.pc \in {"groq_fallback", "heuristic", "done"}
        /\ run.pc = "groq_fallback" =>
              (run.groqFallbacks = 0 /\ run.heuristics = 0 /\ run.groqCalls = 0)
        /\ run.pc = "heuristic" =>
              (run.groqFallbacks = 1 /\ run.heuristics = 0 /\ ~cfg.groq)
        /\ run.pc = "done" =>
              /\ run.groqFallbacks = 1
              /\ IF cfg.groq
                 THEN run.groqCalls \in 1..3 /\ run.heuristics = 0 /\ run.path = "groq"
                 ELSE run.groqCalls = 0 /\ run.heuristics = 1 /\ run.path = "heuristic"

\* C9 witness: the fallback returned after three Groq calls
C9_Witness ==
    /\ run.pc = "done"
    /\ run.primaryFailed
    /\ cfg.groq
    /\ run.groqCalls = 3

\* C10: a backend function is re-entered only after a rate-limit error, at
\* most 5 times for call_gemini and 3 for generate_with_tools, and a
\* rate-limited call of the backend call_llm picked first is retried.
C10_RetryOnRateLimitOnly ==
    /\ llm.backend = "call_gemini" => llm.attempts <= GeminiTextAttempts
    /\ llm.backend = "generate_with_tools" => llm.attempts <= GeminiToolAttempts
    /\ (llm.pc = "calling" /\ llm.attempts > 0) => llm.err = "rate_limit"
    /\ (llm.pc = "raised" /\ llm.fn = "call_llm" /\ llm.err = "rate_limit")
          => llm.attempts > 1

\* C11: no handler generates the refined text of a plan slot whose
\* refined_q_<slot> key is already in the stored conversation state: the
\* text of a slot is generated at most once and later readers use the cache.
C11_RefinedOnce ==
    LastResp.generated \cap LastResp.cached0 = {}

\* C12: the state update of a recorded turn matches run()'s decision: a
\* followup adds one to followup_count, appends the question to
\* previous_followups and keeps question_index; an advance or an end sets
\* followup_count to 0, empties previous_followups and adds one to
\* question_index.
C12_StateMatchesDecision ==
    [][(turns' # turns /\ resp'[1].op = "submit") =>
          LET old == load_state(conversation_state)
              new == conversation_state'
              r == resp'[1]
          IN  /\ r.decision = "followup" =>
                    /\ new.followup_count = old.followup_count + 1
                    /\ new.previous_followups =
                          Append(old.previous_followups, r.followup_question)
                    /\ new.question_index = old.question_index
              /\ r.decision \in {"advance", "end"} =>
                    /\ new.followup_count = 0
                    /\ new.previous_followups = << >>
                    /\ new.question_index = old.question_index + 1]_vars

\* a step of run() that executed a tool call
Executed == acts'.total = acts.total + 1

\* C13: executing a terminal tool (ask_followup, give_hint,
\* advance_to_next, end_interview) ends run(): no later tool call of the
\* response is executed and no further backend query is made.
C13_TerminalEndsLoop ==
    [][(Executed /\ acts'.last \in TerminalTools) => run'.pc = "done"]_vars

\* C13 amended: advance_to_next and end_interview, and an ask_followup or
\* give_hint whose tool succeeded, end run() at once; once run() has ended
\* nothing more is executed or queried.  A failed ask_followup or give_hint
\* does not end it.
C13_EffectiveTerminalEndsLoop ==
    [][/\ (/\ Executed
           /\ \/ acts'.last \in {"advance_to_next", "end_interview"}
              \/ acts'.last \in {"ask_followup", "give_hint"} /\ acts'.ok)
          => (run'.pc = "done" /\ run'.queries = run.queries)
       /\ run.pc = "done" => (run' = IdleRun /\ acts' = acts)]_vars

\* a terminal tool ended run() while the response had further calls queued
C13_Witness ==
    /\ run.pc = "done"
    /\ run.path = "tool"
    /\ run.pending > 1
    /\ acts.last \in TerminalTools

C15_MaxIterationsDecision ==
    (run.pc = "done" /\ run.path = "maxiter") =>
        run.decision.action =
            IF IsLastQuestion(run.question_index, run.total_questions)
            THEN "end" ELSE "advance"

\* a recorded turn with code submitted while every backend call failed
CodeWhileDown ==
    /\ LastResp.op = "submit"
    /\ LastResp.recorded = 1
    /\ LastResp.ans.code
    /\ LastResp.down
    /\ ~cfg.testMode

\* C16: a turn with code submitted while every backend call fails is
\* recorded with overall 0.85 and applied as advance, on every slot and with
\* or without a Groq key.
C16_CodeDefaultsAndAdvances ==
    CodeWhileDown => (LastResp.overall = 85 /\ LastResp.applied = "advance")

\* C16 amended: such a turn is recorded with overall 0.85; it is applied as
\* end on the final plan slot when no Groq key is configured and the
\* follow-up budget is not exhausted, and as advance otherwise.
C16_CodeDefaultsAdvanceOrEnd ==
    CodeWhileDown =>
        /\ LastResp.overall = 85
        /\ LastResp.applied =
              IF /\ ~cfg.groq
                 /\ LastResp.fc0 < max_followups
                 /\ LastResp.qi0 = Len(plan) - 1
              THEN "end" ELSE "advance"

\* code was submitted on the final slot with the backends down and no Groq key
C16_Witness ==
    /\ CodeWhileDown
    /\ ~cfg.groq
    /\ LastResp.applied = "end"
    /\ LastResp.overall = 85

\* C17: within one run() each terminal tool reaches its implementation at
\* most once and each information tool at most twice (acts counts the calls
\* of the watched tool that execute_tool handed to an implementation; a
\* name outside the tool table is handed to none).
C17_PerToolCaps ==
    acts.watched \in ToolNames => acts.count <= MAX_TOOL_CALLS_PER_TYPE(acts.watched)

\* C18: within one run() at most 10 tool calls are executed in total and no
\* tool is executed 4 times in a row.
C18_LoopLimits ==
    /\ acts.total <= MAX_TOTAL_TOOL_CALLS
    /\ acts.streak < CIRCULAR_REPEATS

\* C19: for a recorded turn the action process_turn applied is the action
\* validate_agent_decision leaves for run()'s decision, the follow-up count
\* on entry, max_followups and whether the slot is the last one.
C19_ValidatorAgreesWithPipeline ==
    (LastResp.op = "submit" /\ LastResp.recorded = 1) =>
        LastResp.applied =
            validate_agent_decision(LastResp.decision, LastResp.fc0, max_followups,
                                    LastResp.qi0 >= Len(plan) - 1)

\* question texts known to satisfy is_question_allowed: no question, a text
\* filter_question returned ("filtered"), or one of the fixed texts of the
\* code ("canned").  "unfiltered" is text of a backend reply that was handed
\* on without a call of filter_question and can match UNSAFE_PATTERNS.
PassedFilter(q) == q \in {None, "filtered", "canned", "canned_example", "canned_tradeoffs"}

\* C20: the followup_question of every submitAnswer response has passed the
\* content filter, whichever path produced it.
C20_FollowupsFiltered ==
    LastResp.op = "submit" => PassedFilter(LastResp.followup_question)

\* a denylisted keyword occurs at position i of the text and no occurrence
\* of an allow-listed phrase covers it
Exposed(text) ==
    \E pattern \in UNSAFE_PATTERNS, i \in 1..Len(text) :
        /\ OccursAt(pattern, text, i)
        /\ ~\E exc \in SAFE_EXCEPTIONS, j \in 1..Len(text) :
              /\ OccursAt(exc, text, j)
              /\ j <= i
              /\ i + Len(pattern) - 1 <= j + Len(exc) - 1

\* C21: is_question_allowed rejects every text in which a denylisted
\* keyword occurs outside an allow-listed phrase, also when the text holds an
\* allow-listed phrase somewhere else.
C21_KeywordOutsidePhraseRejected ==
    (filter.pc = "done" /\ Exposed(filter.question)) =>
        (~filter.allowed /\ filter.returned = None)

\* an ask_followup of this run() failed: the watched tool is ask_followup
\* and it was executed without being the successful last call, or twice
FailedFollowupSeen ==
    /\ acts.watched = "ask_followup"
    /\ acts.count >= 1
    /\ (acts.last # "ask_followup" \/ ~acts.ok \/ acts.count >= 2)

\* the decision process_turn goes on with after run() (its except branch
\* replaces an exception by an advance)
DecisionOfTurn == IF run.raised THEN ExceptionDecision ELSE run.decision

\* C22: an ask_followup whose tool call failed (question rejected by the
\* filter, backend error) returns no decision and raises nothing: run() goes
\* on with the next queued call or the next iteration, and a run() in which
\* it happened still hands process_turn a decision.
C22_FailedFollowupGoesOn ==
    [][/\ (Executed /\ acts'.last = "ask_followup" /\ ~acts'.ok) =>
              /\ run'.pc \in {"act", "think"}
              /\ run'.pc = "act" => run'.pending = run.pending - 1
              /\ run'.pc = "think" => run'.iteration = run.iteration + 1
              /\ run'.decision = NoDecision
              /\ ~run'.raised
       /\ (run'.pc = "done" /\ FailedFollowupSeen') =>
              DecisionOfTurn'.action \in {"followup", "hint", "advance", "end"}]_vars

\* run() ended with a tool's advance decision after a failed ask_followup
C22_Witness ==
    /\ run.pc = "done"
    /\ FailedFollowupSeen
    /\ run.path = "tool"
    /\ run.decision.action = "advance"

\* C23: once ended_at is set no operation changes the session: no turn is
\* added, ended_at stays set, and question_index, followup_count and
\* previous_followups keep their values.
C23_EndedIsTerminal ==
    [][ended_at =>
          /\ ended_at'
          /\ turns' = turns
          /\ conversation_state'.question_index = conversation_state.question_index
          /\ conversation_state'.followup_count = conversation_state.followup_count
          /\ conversation_state'.previous_followups =
                 conversation_state.previous_followups]_vars

\* the interview is over: ended_at is set or the plan is used up
Completed == ended_at \/ conversation_state.question_index >= Len(plan)

\* C24: with a candidate who keeps submitting answers, whatever the backend
\* decides, a session that is on plan slot i leaves that slot or ends, and
\* every session that is not over reaches a response with is_done.
C24_NeverStalls ==
    /\ \A i \in 0..(MaxOpen + MaxCode - 1) :
          (created /\ conversation_state.question_index = i)
              ~> (conversation_state.question_index # i \/ ended_at)
    /\ (created /\ ~Completed) ~> (LastResp.op = "submit" /\ LastResp.is_done)

\* the plan is being built and the open questions have been selected
OpenSelected == selection.pc \in {"code", "done"}

\* C25: when the bank holds a question of the requested type whose text
\* passes the filter, a selection of a positive number of questions is not
\* empty, whatever the recency exclusion removes.
C25_RecencyFallback ==
    (/\ OpenSelected
     /\ selection.num_open > 0
     /\ \E q \in selection.bank \cap OpenIds :
           selection_is_question_allowed(QuestionBank[q].question_text))
        => selection.open # << >>

\* C26: if a question was selected whose topic overlap with an earlier
\* selected question exceeds 0.7, then every question of the candidate pool
\* not selected before it also overlapped an earlier selected one by more
\* than 0.7.
C26_DiverseWherePossible ==
    selection.pc = "open" =>
        \A j \in 2..Len(selection.selected) :
            LET before == SubSeq(selection.selected, 1, j - 1)
            IN  MaxOverlapHigh(selection.selected[j], before) =>
                    \A r \in selection.pool0 \ Range(before) :
                        MaxOverlapHigh(r, before)

\* a question overlapping the first selection was skipped and a question
\* that does not overlap it was selected
C26_Witness ==
    /\ selection.pc = "open"
    /\ Len(selection.selected) = 2
    /\ selection.pool0 \ selection.pool # {}
    /\ ~MaxOverlapHigh(selection.selected[2], <<selection.selected[1]>>)

\* the question ids of the plan: every slot's selection and alternates
PlanQuestionIds ==
    UNION {{selection.items[i].selected_question_id}
               \cup {selection.items[i].candidates[k].question_id :
                        k \in 1..Len(selection.items[i].candidates)} :
           i \in 1..Len(selection.items)}

\* the ids asked in the candidate's 3 most recent sessions for this job
\* spec, as far as those were created within the last 7 days
AskedRecently ==
    LET own == {h \in selection.history : h.mine}
        latest == {h \in own : Cardinality({g \in own : g.age < h.age}) < 3}
    IN  UNION {h.asked : h \in {g \in latest : g.age <= 7}}

\* C27: no question of the plan (selected or alternate) was asked in one of
\* the candidate's 3 most recent sessions for the job spec created in the
\* last 7 days.
C27_NoRecentQuestion ==
    selection.pc = "done" => PlanQuestionIds \cap AskedRecently = {}

\* a plan was built from a bank in which recently asked questions were left
\* out, while a question of a fourth or an older session was planned
C27_Witness ==
    /\ selection.pc = "done"
    /\ AskedRecently \cap selection.bank # {}
    /\ PlanQuestionIds # {}
    /\ \E h \in selection.history :
          h.mine /\ h.asked \cap PlanQuestionIds # {}

\* C28: a code slot holds one alternate for each difficulty tier present
\* among the selected code questions, Easy before Medium before Hard, and
\* its selected question is the first (easiest) alternate.
C28_AlternatePerTier ==
    selection.pc = "done" =>
        \A i \in 1..Len(selection.items) :
            LET item == selection.items[i]
                present == {Tier(selection.code[k]) : k \in 1..Len(selection.code)}
            IN  item.type = "code" =>
                   /\ {item.candidates[k].difficulty :
                          k \in 1..Len(item.candidates)} = present
                   /\ Len(item.candidates) = Cardinality(present)
                   /\ \A k \in 1..(Len(item.candidates) - 1) :
                         TierRank(item.candidates[k].difficulty)
                            < TierRank(item.candidates[k + 1].difficulty)
                   /\ item.selected_question_id = item.candidates[1].question_id

\* the difficulty rank of question q of a plan built by EngineItem
RankOf(q) == q % 10

\* C29: a code slot with more than one alternate is presented with an
\* alternate chosen by the latest score s (s < 0.6: none harder than the
\* plan's selection and the easiest one; s > 0.85: the hardest one; else
\* the plan's selection), and every recorded turn is recorded for the
\* question that was presented on its slot.
C29_AdaptiveAlternate ==
    engine.pc # "idle" =>
        /\ \A i \in 1..Len(engine.turns) :
              engine.turns[i].question_id = engine.turns[i].presented
        /\ (/\ engine.pc = "active"
            /\ engine.turns # << >>
            /\ engine.last_score # NoneVal
            /\ Len(engine.plan[Len(engine.turns) + 1].candidates) > 1) =>
              LET item == engine.plan[Len(engine.turns) + 1]
                  ranks == {TierRank(item.candidates[k].difficulty) :
                               k \in 1..Len(item.candidates)}
              IN  /\ engine.last_score < 60 =>
                        \A r \in ranks : RankOf(engine.presented) <= r
                  /\ engine.last_score > 85 =>
                        \A r \in ranks : RankOf(engine.presented) >= r
                  /\ engine.last_score \in 60..85 =>
                        engine.presented = item.question_id

\* C30: in the deterministic mode on a plan of one open and one code
\* question, an answer given with followup_count = 0 is answered by that
\* slot's follow-up (followup_count 1, question_index unchanged; the texts of
\* the two slots differ), the next answer on slot 0 advances to slot 1 with
\* followup_count 0 and on slot 1 ends the interview, and is_done comes with
\* the fourth recorded answer and no other.
C30_TestModeFlow ==
    [][(cfg.testMode /\ plan = PlanOf(1, 1) /\ turns' # turns) =>
          LET r == resp'[1]
              new == conversation_state'
          IN  /\ r.fc0 = 0 =>
                    /\ r.applied = "followup"
                    /\ new.followup_count = 1
                    /\ new.question_index = r.qi0
                    /\ r.followup_question =
                          (IF r.qi0 = 0 THEN "canned_example" ELSE "canned_tradeoffs")
              /\ (r.fc0 > 0 /\ r.qi0 = 0) =>
                    /\ r.applied = "advance"
                    /\ new.question_index = 1
                    /\ new.followup_count = 0
              /\ (r.fc0 > 0 /\ r.qi0 = 1) =>
                    /\ r.applied = "end"
                    /\ ended_at'
              /\ r.is_done <=> Len(turns') = 4]_vars

\* the fourth answer ended the interview
C30_Witness ==
    /\ cfg.testMode
    /\ plan = PlanOf(1, 1)
    /\ Len(turns) = 4
    /\ ended_at
    /\ LastResp.is_done
    /\ LastResp.applied = "end"

\* C31: for a plan of a single question, the response to the first submitted
\* answer has is_done = TRUE, and an endInterview that follows answers ok and
\* leaves ended_at set.
C31_SingleQuestionDone ==
    [][(plan = PlanOf(1, 0) /\ created) =>
          /\ (Len(turns) = 0 /\ turns' # turns) => resp'[1].is_done
          /\ (resp'[1].op = "end" /\ resp' # resp) =>
                 (resp'[1].status = "ok" /\ ended_at')]_vars

\* C32: in every reachable state of a session, a question_index pointing past
\* the end of the plan comes with followup_count = 0 and an empty
\* previous_followups.
C32_PastEndNoFollowups ==
    (created /\ conversation_state.question_index >= Len(plan)) =>
        /\ conversation_state.followup_count = 0
        /\ conversation_state.previous_followups = << >>

C32_Witness ==
    /\ created
    /\ conversation_state.question_index >= Len(plan)
    /\ Len(turns) >= 2
    /\ \E i \in 1..Len(turns) : turns[i].is_followup

\* C33: whatever the reasoning backend returns (scores outside the range in an
\* analysis result or in the advance_to_next arguments included), the
\* score.overall stored with a recorded turn, which is the decision's
\* satisfaction_score unless an evaluation replaces it, lies in [0, 1]
\* (0..100 in hundredths).
C33_ScoresInUnitRange ==
    \A w \in DOMAIN resp :
        (resp[w].op = "submit" /\ resp[w].recorded = 1 /\ resp[w].overall # NoneVal) =>
            resp[w].overall \in 0..100

\* C34: turn records are never modified after creation, and when turns are
\* processed one at a time their turn_index values are 0, 1, 2, ... in
\* creation order (pairwise distinct and strictly increasing).
C34_TurnsAppendOnly ==
    [][/\ Len(turns') >= Len(turns)
       /\ \A i \in 1..Len(turns) : turns'[i] = turns[i]
       /\ \A i \in 1..Len(turns') : turns'[i].turn_index = i - 1
       /\ \A i, j \in 1..Len(turns') :
             i < j => turns'[i].turn_index < turns'[j].turn_index]_vars

C34_Witness ==
    /\ Len(turns) = MaxTurns
    /\ \A i \in 1..Len(turns) : turns[i].turn_index = i - 1
    /\ \E i \in 1..Len(turns) : turns[i].is_followup

\* C35: every turn recorded while followup_count > 0 is marked is_followup
\* and its parent_turn_id names the most recent non-follow-up turn of the
\* session, and that parent answers the same plan slot (same question_number
\* and question_id); a turn recorded with followup_count = 0 has no parent.
C35_ParentIsSameSlot ==
    \A k \in 1..Len(turns) :
        /\ turns[k].is_followup =>
              /\ turns[k].parent_turn_id = get_last_main_turn(SubSeq(turns, 1, k - 1))
              /\ \E i \in 1..(k - 1) :
                    /\ turns[i].id = turns[k].parent_turn_id
                    /\ ~turns[i].is_followup
                    /\ turns[i].question_number = turns[k].question_number
                    /\ turns[i].question_id = turns[k].question_id
        /\ ~turns[k].is_followup => turns[k].parent_turn_id = 0

C35_Witness ==
    /\ Len(turns) = 3
    /\ ~turns[1].is_followup /\ turns[1].question_number = 0
    /\ ~turns[2].is_followup /\ turns[2].question_number = 1
    /\ turns[3].is_followup /\ turns[3].parent_turn_id = turns[2].id

\* C36: in every reachable state of a session the number of entries of
\* previous_followups equals followup_count: both start empty/0, grow by one
\* on a followup, are left alone by a hint, and are reset together on advance
\* and on skipToCodeSection.
C36_FollowupsCounted ==
    /\ [](Len(conversation_state.previous_followups) = conversation_state.followup_count)
    /\ [][LET old == conversation_state
              new == conversation_state'
              r   == resp'[1]
          IN  /\ (resp' # resp /\ r.op = "submit" /\ r.applied = "hint") =>
                     /\ new.followup_count = old.followup_count
                     /\ new.previous_followups = old.previous_followups
              /\ (resp' # resp /\ r.op = "submit" /\ r.applied = "followup") =>
                     /\ new.followup_count = old.followup_count + 1
                     /\ Len(new.previous_followups) = Len(old.previous_followups) + 1
              /\ (resp' # resp /\ r.op = "submit" /\ r.applied = "advance") =>
                     /\ new.followup_count = 0
                     /\ new.previous_followups = << >>
              /\ (resp' # resp /\ r.op = "skip" /\ r.status = "ok") =>
                     /\ new.followup_count = 0
                     /\ new.previous_followups = << >>]_vars

C36_Witness ==
    /\ conversation_state.followup_count = 2
    /\ Len(conversation_state.previous_followups) = 2
    /\ LastResp.applied = "hint"

\* C37: whenever a submitAnswer response has is_done = TRUE, the session's
\* ended_at is set when the call returns (also when the last slot is left by
\* an advance decision and when the question of the current slot cannot be
\* loaded).
C37_DoneMeansEnded ==
    (LastResp.op = "submit" /\ LastResp.is_done) => ended_at

\* C38: a startInterview call that fails (empty plan, failure while recording
\* the asked question) leaves the store unchanged: no InterviewSession row and
\* no question-history row created by that call remains persisted.
C38_FailedStartLeavesNothing ==
    [][(store' # store /\ store'.resp.status = "error") =>
          /\ store'.sessions = store.sessions
          /\ store'.history = store.history]_vars

\* C39: startInterview can be repeated for the same candidate and role:
\* whenever the built plan is non-empty the call succeeds, also when the first
\* question of the new plan was already recorded as asked by an earlier
\* startInterview.
C39_RepeatedStartSucceeds ==
    [][(store' # store /\ store'.resp.first # 0) => store'.resp.status = "ok"]_vars

\* C40: for every style slider value s in 0..100 given in the settings (typed
\* object or key/value bag), plan building uses technical boost
\* 2.0 - 1.7*s/100 and personal boost 0.3 + 1.7*s/100: 2.0 and 0.3 at s = 0,
\* 1.0 and 1.0 at s = 50, 0.3 and 2.0 at s = 100; and the style multiplier of
\* a question is never below 0.1.
C40_StyleBoosts ==
    (style.pc = "done" /\ style.s \in StyleValues) =>
        LET w == style.weights
        IN  /\ w.technical_boost = 2000 - 17 * style.s
            /\ w.personal_boost = 300 + 17 * style.s
            /\ style.s = 0 => (w.technical_boost = 2000 /\ w.personal_boost = 300)
            /\ style.s = 50 => (w.technical_boost = 1000 /\ w.personal_boost = 1000)
            /\ style.s = 100 => (w.technical_boost = 300 /\ w.personal_boost = 2000)
            /\ 10 * style.multiplier.num >= 1000 * style.multiplier.den

====
